---- MODULE Spec2Model ----
(***************************************************************************)
(* Model of the product microservice: the basic-auth gate                  *)
(* (internal/auth/auth.go), the product domain service                     *)
(* (internal/service/product) over its store, and the DeleteProduct        *)
(* handler (internal/grpc/handlers/product.go) the gate is wired in front  *)
(* of.                                                                     *)
(*                                                                         *)
(* Go strings that the code takes apart (headers, method names,            *)
(* credentials) are sequences of byte values; a nil pointer is the empty   *)
(* sequence and a non-nil pointer a one-element sequence; a float64 is a   *)
(* record [nan, v] so that Go's comparisons with NaN keep their meaning.   *)
(***************************************************************************)
EXTENDS Integers, Sequences, FiniteSets, TLC

VARIABLES users, products, plans, uuids, call, inflight

vars == <<users, products, plans, uuids, call, inflight>>

(***************************************************************************)
(* Go strings                                                              *)
(***************************************************************************)

\* strings.HasPrefix(s, prefix)
HasPrefix(s, prefix) ==
    /\ Len(s) >= Len(prefix)
    /\ SubSeq(s, 1, Len(prefix)) = prefix

\* strings.HasSuffix(s, suffix)
HasSuffix(s, suffix) ==
    /\ Len(s) >= Len(suffix)
    /\ SubSeq(s, Len(s) - Len(suffix) + 1, Len(s)) = suffix

\* strings.TrimPrefix(s, prefix)
TrimPrefix(s, prefix) ==
    IF HasPrefix(s, prefix) THEN SubSeq(s, Len(prefix) + 1, Len(s)) ELSE s

Colon == <<58>>          \* ":"

\* the white space of strings.TrimSpace among the ASCII characters: tab, line
\* feed, vertical tab, form feed, carriage return, space
WhiteSpace == {9, 10, 11, 12, 13, 32}

\* strings.TrimLeftFunc(s, unicode.IsSpace)
RECURSIVE TrimLeft(_)
TrimLeft(s) ==
    IF s # <<>> /\ Head(s) \in WhiteSpace THEN TrimLeft(Tail(s)) ELSE s

\* strings.TrimRightFunc(s, unicode.IsSpace)
RECURSIVE TrimRight(_)
TrimRight(s) ==
    IF s # <<>> /\ s[Len(s)] \in WhiteSpace
    THEN TrimRight(SubSeq(s, 1, Len(s) - 1)) ELSE s

\* strings.TrimSpace(s)
TrimSpace(s) == TrimRight(TrimLeft(s))

\* html.EscapeString on one character: & ' < > " are replaced
EscapeChar(c) ==
    CASE c = 38 -> <<38, 97, 109, 112, 59>>      \* "&amp;"
      [] c = 39 -> <<38, 35, 51, 57, 59>>        \* "&#39;"
      [] c = 60 -> <<38, 108, 116, 59>>          \* "&lt;"
      [] c = 62 -> <<38, 103, 116, 59>>          \* "&gt;"
      [] c = 34 -> <<38, 35, 51, 52, 59>>        \* "&#34;"
      [] OTHER  -> <<c>>

\* html.EscapeString(s): every character replaced in its place; the string is
\* halved so that the depth of the evaluation stays small on long strings
RECURSIVE EscapeString(_)
EscapeString(s) ==
    IF s = <<>> THEN <<>>
    ELSE IF Len(s) = 1 THEN EscapeChar(s[1])
    ELSE EscapeString(SubSeq(s, 1, Len(s) \div 2))
         \o EscapeString(SubSeq(s, Len(s) \div 2 + 1, Len(s)))

(***************************************************************************)
(* internal/validation: the sanitizer                                      *)
(***************************************************************************)

S_http  == <<104, 116, 116, 112, 58, 47, 47>>            \* "http://"
S_https == <<104, 116, 116, 112, 115, 58, 47, 47>>       \* "https://"

\* SanitizeString
SanitizeString(input) == EscapeString(TrimSpace(input))

\* (a faulty SanitizeURL: the prefix is looked for in the trimmed input and
\* the input is returned as it came)
SanitizeURLUntrimmed(input) ==
    IF ~HasPrefix(TrimSpace(input), S_http) /\ ~HasPrefix(TrimSpace(input), S_https)
    THEN <<>>
    ELSE input

\* SanitizeURL
SanitizeURL(input) ==
    LET trimmed == TrimSpace(input)
    IN  IF ~HasPrefix(trimmed, S_http) /\ ~HasPrefix(trimmed, S_https)
        THEN <<>>
        ELSE trimmed

\* strings.Index(s, ":") counted from 1, 0 when there is none
IndexColon(s) ==
    IF \E i \in 1..Len(s) : s[i] = Colon[1]
    THEN CHOOSE i \in 1..Len(s) :
            /\ s[i] = Colon[1]
            /\ \A j \in 1..(i - 1) : s[j] # Colon[1]
    ELSE 0

\* strings.LastIndex(s, ":") counted from 1, 0 when there is none
LastIndexColon(s) ==
    IF \E i \in 1..Len(s) : s[i] = Colon[1]
    THEN CHOOSE i \in 1..Len(s) :
            /\ s[i] = Colon[1]
            /\ \A j \in (i + 1)..Len(s) : s[j] # Colon[1]
    ELSE 0

\* a faulty split: at the last colon instead of the first
SplitAtLastColon(s) ==
    IF LastIndexColon(s) = 0
    THEN <<s>>
    ELSE <<SubSeq(s, 1, LastIndexColon(s) - 1),
           SubSeq(s, LastIndexColon(s) + 1, Len(s))>>

\* strings.SplitN(s, ":", 2): one part when s holds no colon, else the text
\* before the first colon and all the text after it
SplitN2(s) ==
    IF IndexColon(s) = 0
    THEN <<s>>
    ELSE <<SubSeq(s, 1, IndexColon(s) - 1), SubSeq(s, IndexColon(s) + 1, Len(s))>>

(***************************************************************************)
(* encoding/base64, StdEncoding (padded, not strict)                       *)
(***************************************************************************)

\* "ABCDEFGHIJKLMNOPQRSTUVWXYZabcdefghijklmnopqrstuvwxyz0123456789+/"
B64Alphabet ==
    <<65, 66, 67, 68, 69, 70, 71, 72, 73, 74, 75, 76, 77, 78, 79, 80, 81, 82,
      83, 84, 85, 86, 87, 88, 89, 90, 97, 98, 99, 100, 101, 102, 103, 104, 105,
      106, 107, 108, 109, 110, 111, 112, 113, 114, 115, 116, 117, 118, 119,
      120, 121, 122, 48, 49, 50, 51, 52, 53, 54, 55, 56, 57, 43, 47>>

B64Pad == <<61>>         \* "="

\* the character of a 6-bit value
B64Char(v) == B64Alphabet[v + 1]

\* the 6-bit value of a character (the decode map of the alphabet), -1 for a
\* character outside it
B64Value(c) ==
    IF c \in 65..90 THEN c - 65
    ELSE IF c \in 97..122 THEN c - 71
    ELSE IF c \in 48..57 THEN c + 4
    ELSE IF c = 43 THEN 62
    ELSE IF c = 47 THEN 63
    ELSE 0 - 1

RECURSIVE B64Encode(_)
\* base64.StdEncoding.EncodeToString
B64Encode(b) ==
    IF Len(b) = 0 THEN <<>>
    ELSE IF Len(b) = 1 THEN
        <<B64Char(b[1] \div 4), B64Char((b[1] % 4) * 16), B64Pad[1], B64Pad[1]>>
    ELSE IF Len(b) = 2 THEN
        <<B64Char(b[1] \div 4),
          B64Char((b[1] % 4) * 16 + b[2] \div 16),
          B64Char((b[2] % 16) * 4),
          B64Pad[1]>>
    ELSE
        <<B64Char(b[1] \div 4),
          B64Char((b[1] % 4) * 16 + b[2] \div 16),
          B64Char((b[2] % 16) * 4 + b[3] \div 64),
          B64Char(b[3] % 64)>> \o B64Encode(SubSeq(b, 4, Len(b)))

\* the decoder skips "\r" and "\n" wherever they stand
B64Significant(s) == SelectSeq(s, LAMBDA c : c # 10 /\ c # 13)

B64Corrupt == [ok |-> FALSE, bytes |-> <<>>]

RECURSIVE B64DecodeQuanta(_)
\* one 4-character quantum at a time: padding only ends the input, as "x=" or
\* "==" after two characters; the bits a padded quantum leaves over are dropped
\* unchecked (the encoding is not Strict)
B64DecodeQuanta(s) ==
    IF Len(s) = 0 THEN [ok |-> TRUE, bytes |-> <<>>]
    ELSE IF Len(s) < 4 THEN B64Corrupt
    ELSE IF B64Value(s[1]) < 0 \/ B64Value(s[2]) < 0 THEN B64Corrupt
    ELSE IF s[3] = B64Pad[1] THEN
        IF s[4] = B64Pad[1] /\ Len(s) = 4
        THEN [ok |-> TRUE,
              bytes |-> <<B64Value(s[1]) * 4 + B64Value(s[2]) \div 16>>]
        ELSE B64Corrupt
    ELSE IF B64Value(s[3]) < 0 THEN B64Corrupt
    ELSE IF s[4] = B64Pad[1] THEN
        IF Len(s) = 4
        THEN [ok |-> TRUE,
              bytes |-> <<B64Value(s[1]) * 4 + B64Value(s[2]) \div 16,
                          (B64Value(s[2]) % 16) * 16 + B64Value(s[3]) \div 4>>]
        ELSE B64Corrupt
    ELSE IF B64Value(s[4]) < 0 THEN B64Corrupt
    ELSE LET rest == B64DecodeQuanta(SubSeq(s, 5, Len(s)))
         IN  IF rest.ok
             THEN [ok |-> TRUE,
                   bytes |-> <<B64Value(s[1]) * 4 + B64Value(s[2]) \div 16,
                               (B64Value(s[2]) % 16) * 16 + B64Value(s[3]) \div 4,
                               (B64Value(s[3]) % 4) * 64 + B64Value(s[4])>>
                             \o rest.bytes]
             ELSE B64Corrupt

\* base64.StdEncoding.DecodeString: [ok, bytes]
B64Decode(s) == B64DecodeQuanta(B64Significant(s))

(***************************************************************************)
(* float64                                                                 *)
(***************************************************************************)

\* a float64 that is a number is held as its count of thousandths: F(v) is
\* the whole number v, Milli(m) is m thousandths
F(v) == [nan |-> FALSE, v |-> 1000 * v]

Milli(m) == [nan |-> FALSE, v |-> m]

NaN == [nan |-> TRUE, v |-> 0]

\* Go's x <= 0 and x > 0 on float64: both are false of NaN
FloatLeZero(x) == ~x.nan /\ x.v <= 0

FloatGtZero(x) == ~x.nan /\ x.v > 0

\* Go's x < 0, x != 0 and x > n, n a whole number: of NaN the first and the
\* last are false and the second is true
FloatLtZero(x) == ~x.nan /\ x.v < 0

FloatNeZero(x) == x.nan \/ x.v # 0

FloatGt(x, n) == ~x.nan /\ x.v > 1000 * n

(***************************************************************************)
(* internal/auth: Authenticator                                            *)
(***************************************************************************)

S_admin       == <<97, 100, 109, 105, 110>>                                \* "admin"
S_password123 == <<112, 97, 115, 115, 119, 111, 114, 100, 49, 50, 51>>     \* "password123"
S_client      == <<99, 108, 105, 101, 110, 116>>                           \* "client"
S_client456   == <<99, 108, 105, 101, 110, 116, 52, 53, 54>>               \* "client456"
S_test        == <<116, 101, 115, 116>>                                    \* "test"
S_test789     == <<116, 101, 115, 116, 55, 56, 57>>                        \* "test789"

\* NewAuthenticator: the predefined users
NewAuthenticator ==
    (S_admin :> S_password123) @@ (S_client :> S_client456) @@ (S_test :> S_test789)

\* a faulty AddUser: a username already in the map keeps its password
MapAssignIfAbsent(m, username, password) ==
    [u \in DOMAIN m \cup {username} |-> IF u \in DOMAIN m THEN m[u] ELSE password]

\* a.users[username] = password
MapAssign(m, username, password) ==
    [u \in DOMAIN m \cup {username} |-> IF u = username THEN password ELSE m[u]]

\* ValidateCredentials on the map m of the authenticator
ValidateCredentials(m, username, password) ==
    /\ username \in DOMAIN m
    /\ m[username] = password

StatusOK == [code |-> "OK", msg |-> ""]

Unauthenticated(msg) == [code |-> "Unauthenticated", msg |-> msg]

\* the incoming context: no metadata at all, or metadata with the values of its
\* "authorization" key in order
NoMetadata == [present |-> FALSE, authorization |-> <<>>]

Metadata(values) == [present |-> TRUE, authorization |-> values]

BasicPrefix == <<66, 97, 115, 105, 99, 32>>                                 \* "Basic "

\* a faulty authenticate: the metadata is read without the check that there
\* is any, so a call without metadata is reported as one without the header
authenticateUncheckedMetadata(m, md) ==
    IF Len(md.authorization) = 0
    THEN Unauthenticated("missing authorization header")
    ELSE LET authHeader   == md.authorization[1]
             decodedCreds == B64Decode(TrimPrefix(authHeader, BasicPrefix))
             parts        == SplitN2(decodedCreds.bytes)
         IN  IF ~HasPrefix(authHeader, BasicPrefix)
             THEN Unauthenticated("invalid authorization header format")
             ELSE IF ~decodedCreds.ok
             THEN Unauthenticated("invalid base64 encoding")
             ELSE IF Len(parts) # 2
             THEN Unauthenticated("invalid credentials format")
             ELSE IF ~ValidateCredentials(m, parts[1], parts[2])
             THEN Unauthenticated("invalid username or password")
             ELSE StatusOK

\* authenticate: the status of the error it returns, StatusOK for nil
authenticate(m, md) ==
    IF ~md.present THEN Unauthenticated("missing metadata")
    ELSE IF Len(md.authorization) = 0
    THEN Unauthenticated("missing authorization header")
    ELSE LET authHeader   == md.authorization[1]
             encodedCreds == TrimPrefix(authHeader, BasicPrefix)
             decodedCreds == B64Decode(encodedCreds)
             parts        == SplitN2(decodedCreds.bytes)
         IN  IF ~HasPrefix(authHeader, BasicPrefix)
             THEN Unauthenticated("invalid authorization header format")
             ELSE IF ~decodedCreds.ok
             THEN Unauthenticated("invalid base64 encoding")
             ELSE IF Len(parts) # 2
             THEN Unauthenticated("invalid credentials format")
             ELSE IF ~ValidateCredentials(m, parts[1], parts[2])
             THEN Unauthenticated("invalid username or password")
             ELSE StatusOK

\* EncodeBasicAuth
EncodeBasicAuth(username, password) ==
    BasicPrefix \o B64Encode(username \o Colon \o password)

HealthSuffix == <<47, 72, 101, 97, 108, 116, 104>>                          \* "/Health"

\* a faulty interceptor: the error of authenticate is dropped
UnaryGateDropsError(m, fullMethod, md) == StatusOK

\* a faulty interceptor: a call that follows one that was let through is let
\* through as well, as if the first had opened a session
UnaryGateSession(m, fullMethod, md) ==
    IF HasSuffix(fullMethod, HealthSuffix) \/ (call.op = "Unary" /\ call.invoked)
    THEN StatusOK
    ELSE authenticate(m, md)

\* UnaryInterceptor up to its call of the handler: StatusOK when the handler
\* is to be invoked, else the error returned in its place
UnaryGate(m, fullMethod, md) ==
    IF HasSuffix(fullMethod, HealthSuffix) THEN StatusOK ELSE authenticate(m, md)

\* StreamInterceptor up to its call of the handler
StreamGate(m, fullMethod, md) == authenticate(m, md)

(***************************************************************************)
(* internal/service: typed errors                                          *)
(***************************************************************************)

NoError == [class |-> "nil", msg |-> ""]

\* service.BadRequest{Err}
BadRequest(msg) == [class |-> "BadRequest", msg |-> msg]

\* service.NotFound{Err}
NotFound(msg) == [class |-> "NotFound", msg |-> msg]

\* an error of the store, of no service type
StoreError(msg) == [class |-> "untyped", msg |-> msg]

\* gorm.ErrRecordNotFound
ErrRecordNotFound == StoreError("record not found")

\* the error of a statement the database did not carry out: the connection
\* is lost, the context of the call is cancelled or past its deadline
ErrStatement == StoreError("context deadline exceeded")

\* the store statement that fails in a call, by the method that issues it
\* ("Update.First" is the fetch that follows the update in Update); none fails
\* when the database answers every statement
NoFault == "none"

(***************************************************************************)
(* internal/service/product: entity                                        *)
(***************************************************************************)

DigitalProduct      == "digital"
PhysicalProduct     == "physical"
SubscriptionProduct == "subscription"

\* ProductType.IsValid
IsValid(pt) == pt \in {DigitalProduct, PhysicalProduct, SubscriptionProduct}

\* uuid.Nil, the zero value of uuid.UUID
NilUUID == "00000000-0000-0000-0000-000000000000"

\* an id a row of the products table has from the default of its id column
OtherUUID == "7c9e6679-7425-40de-944b-e07fc1f90ae7"

\* the most ids uuid.New generates in a behaviour
MaxNew == 2

\* the most rows of a table that is listed
MaxRows == 13

\* the n-th value of uuid.New: a version 4 UUID no earlier call returned
NewUUID(n) ==
    IF n < 10 THEN "10000000-0000-4000-8000-00000000000" \o ToString(n)
    ELSE "10000000-0000-4000-8000-0000000000" \o ToString(n)

\* uuid.Parse on the request ids of the model: the canonical form and the
\* urn form name the same UUID, anything else is an error
ParseUUID(s) ==
    IF s \in {NilUUID, "urn:uuid:00000000-0000-0000-0000-000000000000"}
    THEN [ok |-> TRUE, id |-> NilUUID]
    ELSE IF s = OtherUUID \/ \E n \in 1..99 : s = NewUUID(n)
    THEN [ok |-> TRUE, id |-> s]
    ELSE [ok |-> FALSE, id |-> NilUUID]

Nil == <<>>

Ptr(v) == <<v>>

DigitalProductInfo(fileSize, downloadLink) ==
    [FileSize |-> fileSize, DownloadLink |-> downloadLink]

PhysicalProductInfo(weight, dimensions) ==
    [Weight |-> weight, Dimensions |-> dimensions]

SubscriptionProductInfo(period, renewalPrice) ==
    [SubscriptionPeriod |-> period, RenewalPrice |-> renewalPrice]

(***************************************************************************)
(* ProductStore: the rows of the products table by id                      *)
(***************************************************************************)

NoRows == [id \in {} |-> Nil]

\* ProductRepo.Create: the insert carries the id of the entity as it stands,
\* and the primary key rejects a second row with the same id
StoreCreate(rows, product, fault) ==
    IF fault = "Create"
    THEN [err |-> ErrStatement, rows |-> rows]
    ELSE IF product.ID \in DOMAIN rows
    THEN [err |-> StoreError("duplicate key value violates unique constraint"),
          rows |-> rows]
    ELSE [err |-> NoError,
          rows |-> [id \in DOMAIN rows \cup {product.ID} |->
                       IF id = product.ID THEN product ELSE rows[id]]]

\* ProductRepo.GetByID
StoreGetByID(rows, id, fault) ==
    IF fault = "GetByID"
    THEN [err |-> ErrStatement, product |-> Nil]
    ELSE IF id \in DOMAIN rows
    THEN [err |-> NoError, product |-> Ptr(rows[id])]
    ELSE [err |-> ErrRecordNotFound, product |-> Nil]

\* a variant payload with one column set: the columns of a payload that was
\* absent read back as zero values
\* (a faulty update: the column is set and the other column of the payload is
\* reset to its zero value)
SetDigitalAlone(info, column, value) ==
    Ptr([DigitalProductInfo(0, <<>>) EXCEPT ![column] = value])

SetDigital(info, column, value) ==
    LET old == IF info = Nil THEN DigitalProductInfo(0, <<>>) ELSE info[1]
    IN  Ptr([old EXCEPT ![column] = value])

SetPhysical(info, column, value) ==
    LET old == IF info = Nil THEN PhysicalProductInfo(F(0), <<>>) ELSE info[1]
    IN  Ptr([old EXCEPT ![column] = value])

SetSubscription(info, column, value) ==
    LET old == IF info = Nil THEN SubscriptionProductInfo(<<>>, F(0)) ELSE info[1]
    IN  Ptr([old EXCEPT ![column] = value])

\* the row after UPDATE ... SET of the columns named in updates
ApplyUpdates(row, updates) ==
    LET has(c) == c \in DOMAIN updates
        r1 == IF has("name") THEN [row EXCEPT !.Name = updates["name"]] ELSE row
        r2 == IF has("description")
              THEN [r1 EXCEPT !.Description = updates["description"]] ELSE r1
        r3 == IF has("price") THEN [r2 EXCEPT !.Price = updates["price"]] ELSE r2
        r4 == IF has("digital_file_size")
              THEN [r3 EXCEPT !.DigitalProductInfo =
                       SetDigital(@, "FileSize", updates["digital_file_size"])]
              ELSE r3
        r5 == IF has("digital_download_link")
              THEN [r4 EXCEPT !.DigitalProductInfo =
                       SetDigital(@, "DownloadLink", updates["digital_download_link"])]
              ELSE r4
        r6 == IF has("physical_weight")
              THEN [r5 EXCEPT !.PhysicalProductInfo =
                       SetPhysical(@, "Weight", updates["physical_weight"])]
              ELSE r5
        r7 == IF has("physical_dimensions")
              THEN [r6 EXCEPT !.PhysicalProductInfo =
                       SetPhysical(@, "Dimensions", updates["physical_dimensions"])]
              ELSE r6
        r8 == IF has("subscription_period")
              THEN [r7 EXCEPT !.SubscriptionProductInfo =
                       SetSubscription(@, "SubscriptionPeriod",
                                       updates["subscription_period"])]
              ELSE r7
    IN  IF has("subscription_renewal_price")
        THEN [r8 EXCEPT !.SubscriptionProductInfo =
                 SetSubscription(@, "RenewalPrice",
                                 updates["subscription_renewal_price"])]
        ELSE r8

\* ProductRepo.Update: the update of the rows with this id, then the fetch of
\* the updated row; the two are separate statements, and the first stands
\* when the second fails
StoreUpdate(rows, id, updates, fault) ==
    IF fault = "Update"
    THEN [err |-> ErrStatement, product |-> Nil, rows |-> rows]
    ELSE IF id \in DOMAIN rows
    THEN LET after == [rows EXCEPT ![id] = ApplyUpdates(rows[id], updates)]
         IN  IF fault = "Update.First"
             THEN [err |-> ErrStatement, product |-> Nil, rows |-> after]
             ELSE [err |-> NoError, product |-> Ptr(after[id]), rows |-> after]
    ELSE IF fault = "Update.First"
    THEN [err |-> ErrStatement, product |-> Nil, rows |-> rows]
    ELSE [err |-> ErrRecordNotFound, product |-> Nil, rows |-> rows]

\* (a delete that reports record-not-found when it removed no row)
StoreDeleteStrict(rows, id, fault) ==
    IF fault = "Delete"
    THEN [err |-> ErrStatement, rows |-> rows]
    ELSE IF id \notin DOMAIN rows
    THEN [err |-> ErrRecordNotFound, rows |-> rows]
    ELSE [err |-> NoError, rows |-> [x \in DOMAIN rows \ {id} |-> rows[x]]]

\* ProductRepo.Delete: an unscoped delete of the rows with this id
StoreDelete(rows, id, fault) ==
    IF fault = "Delete"
    THEN [err |-> ErrStatement, rows |-> rows]
    ELSE [err |-> NoError, rows |-> [x \in DOMAIN rows \ {id} |-> rows[x]]]

(***************************************************************************)
(* internal/service/product: ProductService                                *)
(***************************************************************************)

\* validateTypeSpecificFields: Nil, or the message of the error
validateTypeSpecificFields(productType, digital, physical, subscription) ==
    IF productType = DigitalProduct THEN
        IF digital = Nil
        THEN Ptr("digital product information is required for digital products")
        ELSE IF digital[1].FileSize <= 0
        THEN Ptr("file size must be greater than 0 for digital products")
        ELSE IF digital[1].DownloadLink = <<>>
        THEN Ptr("download link is required for digital products")
        ELSE Nil
    ELSE IF productType = PhysicalProduct THEN
        IF physical = Nil
        THEN Ptr("physical product information is required for physical products")
        ELSE IF FloatLeZero(physical[1].Weight)
        THEN Ptr("weight must be greater than 0 for physical products")
        ELSE IF physical[1].Dimensions = <<>>
        THEN Ptr("dimensions are required for physical products")
        ELSE Nil
    ELSE IF productType = SubscriptionProduct THEN
        IF subscription = Nil
        THEN Ptr("subscription product information is required for subscription products")
        ELSE IF subscription[1].SubscriptionPeriod = <<>>
        THEN Ptr("subscription period is required for subscription products")
        ELSE IF FloatLeZero(subscription[1].RenewalPrice)
        THEN Ptr("renewal price must be greater than 0 for subscription products")
        ELSE Nil
    ELSE Nil

\* a faulty CreateProduct: the three payloads of the request are attached
\* whatever the type
NewProductAllPayloads(req) ==
    [ID          |-> "00000000-0000-0000-0000-000000000000",
     Name        |-> req.Name,
     Description |-> req.Description,
     Price       |-> req.Price,
     Type        |-> req.Type,
     DigitalProductInfo      |-> req.DigitalProduct,
     PhysicalProductInfo     |-> req.PhysicalProduct,
     SubscriptionProductInfo |-> req.SubscriptionProduct]

\* the entity CreateProduct builds: the scalar fields, the payload of the
\* declared type, and the ID it never assigns (the zero value)
NewProduct(req) ==
    [ID          |-> NilUUID,
     Name        |-> req.Name,
     Description |-> req.Description,
     Price       |-> req.Price,
     Type        |-> req.Type,
     DigitalProductInfo |->
         IF req.Type = DigitalProduct THEN req.DigitalProduct ELSE Nil,
     PhysicalProductInfo |->
         IF req.Type = PhysicalProduct THEN req.PhysicalProduct ELSE Nil,
     SubscriptionProductInfo |->
         IF req.Type = SubscriptionProduct THEN req.SubscriptionProduct ELSE Nil]

\* what a service call leaves: its error, the entity it returns, the rows of
\* the store after it and the store operations it issued, in order
Outcome(err, product, rows, storeOps) ==
    [err |-> err, product |-> product, rows |-> rows, storeOps |-> storeOps]

\* ProductService.CreateProduct
ServiceCreateProduct(rows, req, fault) ==
    IF ~IsValid(req.Type)
    THEN Outcome(BadRequest("invalid product type"), Nil, rows, <<>>)
    ELSE LET invalid == validateTypeSpecificFields(req.Type, req.DigitalProduct,
                            req.PhysicalProduct, req.SubscriptionProduct)
             created == StoreCreate(rows, NewProduct(req), fault)
         IN  IF invalid # Nil
             THEN Outcome(BadRequest(invalid[1]), Nil, rows, <<>>)
             ELSE IF created.err # NoError
             THEN Outcome(created.err, Nil, created.rows, <<"Create">>)
             ELSE Outcome(NoError, Ptr(NewProduct(req)), created.rows, <<"Create">>)

EmptyUpdates == [c \in {} |-> Nil]

\* updates[column] = value
Put(updates, column, value) ==
    [c \in DOMAIN updates \cup {column} |->
        IF c = column THEN value ELSE updates[c]]

\* the name, description and price entries of UpdateProduct's updates map
ScalarUpdates(req) ==
    LET u1 == IF req.Name # <<>> THEN Put(EmptyUpdates, "name", req.Name)
              ELSE EmptyUpdates
        u2 == IF req.Description # <<>> THEN Put(u1, "description", req.Description)
              ELSE u1
    IN  IF req.Price # Nil THEN Put(u2, "price", req.Price[1]) ELSE u2

\* a faulty switch: on the payloads the request carries, not on the existing
\* product's type
VariantUpdatesOfRequest(existingType, req, updates) ==
    LET u1 == IF req.DigitalProduct # Nil /\ req.DigitalProduct[1].DownloadLink # <<>>
              THEN Put(updates, "digital_download_link",
                       req.DigitalProduct[1].DownloadLink)
              ELSE updates
        u2 == IF req.PhysicalProduct # Nil /\ req.PhysicalProduct[1].Dimensions # <<>>
              THEN Put(u1, "physical_dimensions", req.PhysicalProduct[1].Dimensions)
              ELSE u1
    IN  IF /\ req.SubscriptionProduct # Nil
           /\ req.SubscriptionProduct[1].SubscriptionPeriod # <<>>
        THEN Put(u2, "subscription_period",
                 req.SubscriptionProduct[1].SubscriptionPeriod)
        ELSE u2

\* the switch on the existing product's type: the entries of the payload of
\* that type, each sub-field on its own
VariantUpdates(existingType, req, updates) ==
    IF existingType = DigitalProduct THEN
        IF req.DigitalProduct = Nil THEN updates
        ELSE LET d  == req.DigitalProduct[1]
                 u1 == IF d.FileSize > 0
                       THEN Put(updates, "digital_file_size", d.FileSize)
                       ELSE updates
             IN  IF d.DownloadLink # <<>>
                 THEN Put(u1, "digital_download_link", d.DownloadLink)
                 ELSE u1
    ELSE IF existingType = PhysicalProduct THEN
        IF req.PhysicalProduct = Nil THEN updates
        ELSE LET ph == req.PhysicalProduct[1]
                 u1 == IF FloatGtZero(ph.Weight)
                       THEN Put(updates, "physical_weight", ph.Weight)
                       ELSE updates
             IN  IF ph.Dimensions # <<>>
                 THEN Put(u1, "physical_dimensions", ph.Dimensions)
                 ELSE u1
    ELSE IF existingType = SubscriptionProduct THEN
        IF req.SubscriptionProduct = Nil THEN updates
        ELSE LET sb == req.SubscriptionProduct[1]
                 u1 == IF sb.SubscriptionPeriod # <<>>
                       THEN Put(updates, "subscription_period", sb.SubscriptionPeriod)
                       ELSE updates
             IN  IF FloatGtZero(sb.RenewalPrice)
                 THEN Put(u1, "subscription_renewal_price", sb.RenewalPrice)
                 ELSE u1
    ELSE updates

\* ProductService.UpdateProduct
ServiceUpdateProduct(rows, id, req, fault) ==
    LET existing == StoreGetByID(rows, id, fault)
    IN  IF existing.err = ErrRecordNotFound
        THEN Outcome(NotFound("product not found"), Nil, rows, <<"GetByID">>)
        ELSE IF existing.err # NoError
        THEN Outcome(existing.err, Nil, rows, <<"GetByID">>)
        ELSE LET updates == VariantUpdates(existing.product[1].Type, req,
                                           ScalarUpdates(req))
                 updated == StoreUpdate(rows, id, updates, fault)
             IN  IF DOMAIN updates = {}
                 THEN Outcome(BadRequest("no fields to update"), Nil, rows,
                              <<"GetByID">>)
                 ELSE Outcome(updated.err, updated.product, updated.rows,
                              <<"GetByID", "Update">>)

\* a faulty DeleteProduct: the delete is issued without the lookup
ServiceDeleteProductUnchecked(rows, id, fault) ==
    LET deleted == StoreDelete(rows, id, fault)
    IN  Outcome(deleted.err, Nil, deleted.rows, <<"Delete">>)

\* ProductService.DeleteProduct
ServiceDeleteProduct(rows, id, fault) ==
    LET existing == StoreGetByID(rows, id, fault)
        deleted  == StoreDelete(rows, id, fault)
    IN  IF existing.err = ErrRecordNotFound
        THEN Outcome(NotFound("product not found"), Nil, rows, <<"GetByID">>)
        ELSE IF existing.err # NoError
        THEN Outcome(existing.err, Nil, rows, <<"GetByID">>)
        ELSE Outcome(deleted.err, Nil, deleted.rows, <<"GetByID", "Delete">>)

\* ProductService.GetProduct
ServiceGetProduct(rows, id, fault) ==
    LET existing == StoreGetByID(rows, id, fault)
    IN  IF existing.err = ErrRecordNotFound
        THEN Outcome(NotFound("product not found"), Nil, rows, <<"GetByID">>)
        ELSE Outcome(existing.err, existing.product, rows, <<"GetByID">>)

(***************************************************************************)
(* Lists: a table is read in the order the database returns its rows, a    *)
(* sequence of the ids of the table                                        *)
(***************************************************************************)

\* (a faulty page: the limit is applied and the offset is not)
LimitOnly(matching, limit, offset) ==
    SubSeq(matching, 1,
           IF limit >= 0 /\ limit < Len(matching) THEN limit ELSE Len(matching))

\* .Limit(limit).Offset(offset) on a result: an offset that is not positive
\* and a limit that is negative write no clause
LimitOffset(matching, limit, offset) ==
    LET from == IF offset > 0 THEN offset ELSE 0
        upto == IF limit >= 0 /\ from + limit < Len(matching)
                THEN from + limit ELSE Len(matching)
    IN  SubSeq(matching, from + 1, upto)

\* what a list leaves: its error, the entities of the page, the total and the
\* queries it sent to the store
ListOutcome(err, items, total, queries) ==
    [err |-> err, items |-> items, total |-> total, queries |-> queries]

\* the type filter of a list: Nil, or a pointer to the type
MatchesType(typeFilter, row) == typeFilter = Nil \/ row.Type = typeFilter[1]

\* ProductRepo.GetAll
StoreGetAll(rows, order, typeFilter, limit, offset) ==
    LET matching == SelectSeq(order, LAMBDA id : MatchesType(typeFilter, rows[id]))
        page     == LimitOffset(matching, limit, offset)
    IN  [i \in 1..Len(page) |-> rows[page[i]]]

\* ProductRepo.Count
StoreCount(rows, typeFilter) ==
    Cardinality({id \in DOMAIN rows : MatchesType(typeFilter, rows[id])})

\* (a faulty list: the page and the page size are used as they arrive)
ServiceListProductsAsGiven(rows, order, typeFilter, page, pageSize, fault) ==
    LET offset == (page - 1) * pageSize
        getAll == [query |-> "GetAll", filter |-> typeFilter,
                   limit |-> pageSize, offset |-> offset]
        count  == [query |-> "Count", filter |-> typeFilter]
    IN  IF fault = "GetAll"
        THEN ListOutcome(ErrStatement, <<>>, 0, <<getAll>>)
        ELSE IF fault = "Count"
        THEN ListOutcome(ErrStatement, <<>>, 0, <<getAll, count>>)
        ELSE ListOutcome(NoError,
                         StoreGetAll(rows, order, typeFilter, pageSize, offset),
                         StoreCount(rows, typeFilter), <<getAll, count>>)

\* ProductService.ListProducts
ServiceListProducts(rows, order, typeFilter, page, pageSize, fault) ==
    LET page1     == IF page <= 0 THEN 1 ELSE page
        pageSize1 == IF pageSize <= 0 THEN 10 ELSE pageSize
        offset    == (page1 - 1) * pageSize1
        getAll    == [query |-> "GetAll", filter |-> typeFilter,
                      limit |-> pageSize1, offset |-> offset]
        count     == [query |-> "Count", filter |-> typeFilter]
    IN  IF fault = "GetAll"
        THEN ListOutcome(ErrStatement, <<>>, 0, <<getAll>>)
        ELSE IF fault = "Count"
        THEN ListOutcome(ErrStatement, <<>>, 0, <<getAll, count>>)
        ELSE ListOutcome(NoError,
                         StoreGetAll(rows, order, typeFilter, pageSize1, offset),
                         StoreCount(rows, typeFilter), <<getAll, count>>)

(***************************************************************************)
(* internal/service/subscription: plans, their store and their service     *)
(***************************************************************************)

SubscriptionPlan(id, productID, planName, duration, price) ==
    [ID |-> id, ProductID |-> productID, PlanName |-> planName,
     Duration |-> duration, Price |-> price]

\* the CHECK constraints of the subscription_plans table: duration > 0 and
\* price >= 0, which the database finds true of NaN (it orders NaN above
\* every number)
PlanChecks(plan) == plan.Duration > 0 /\ (plan.Price.nan \/ plan.Price.v >= 0)

\* a value as a DECIMAL(10,2) column holds it: rounded to hundredths, the
\* half away from zero; NaN is kept
Decimal2(x) ==
    IF x.nan THEN x
    ELSE IF x.v >= 0 THEN Milli(((x.v + 5) \div 10) * 10)
    ELSE Milli(0 - (((0 - x.v) + 5) \div 10) * 10)

\* the row of the subscription_plans table for a plan: price is DECIMAL(10,2)
PlanRow(plan) == [plan EXCEPT !.Price = Decimal2(plan.Price)]

\* SubscriptionRepo.Create; parents are the ids of the products table, which
\* product_id REFERENCES
PlanStoreCreate(rows, plan, parents, fault) ==
    IF fault = "Create"
    THEN [err |-> ErrStatement, rows |-> rows]
    ELSE IF plan.ID \in DOMAIN rows
    THEN [err |-> StoreError("duplicate key value violates unique constraint"),
          rows |-> rows]
    ELSE IF plan.ProductID \notin parents
    THEN [err |-> StoreError("violates foreign key constraint"), rows |-> rows]
    ELSE IF ~PlanChecks(PlanRow(plan))
    THEN [err |-> StoreError("violates check constraint"), rows |-> rows]
    ELSE [err |-> NoError,
          rows |-> [id \in DOMAIN rows \cup {plan.ID} |->
                       IF id = plan.ID THEN PlanRow(plan) ELSE rows[id]]]

\* the plan row after UPDATE ... SET of the columns named in updates
ApplyPlanUpdates(row, updates) ==
    LET has(c) == c \in DOMAIN updates
        r1 == IF has("plan_name") THEN [row EXCEPT !.PlanName = updates["plan_name"]]
              ELSE row
        r2 == IF has("duration") THEN [r1 EXCEPT !.Duration = updates["duration"]]
              ELSE r1
    IN  IF has("price") THEN [r2 EXCEPT !.Price = updates["price"]] ELSE r2

\* SubscriptionRepo.Update: the update, then the fetch of the updated row
PlanStoreUpdate(rows, id, updates, fault) ==
    IF fault = "Update"
    THEN [err |-> ErrStatement, product |-> Nil, rows |-> rows]
    ELSE IF id \in DOMAIN rows
    THEN LET after == [rows EXCEPT ![id] = PlanRow(ApplyPlanUpdates(rows[id], updates))]
         IN  IF ~PlanChecks(after[id])
             THEN [err |-> StoreError("violates check constraint"),
                   product |-> Nil, rows |-> rows]
             ELSE IF fault = "Update.First"
             THEN [err |-> ErrStatement, product |-> Nil, rows |-> after]
             ELSE [err |-> NoError, product |-> Ptr(after[id]), rows |-> after]
    ELSE IF fault = "Update.First"
    THEN [err |-> ErrStatement, product |-> Nil, rows |-> rows]
    ELSE [err |-> ErrRecordNotFound, product |-> Nil, rows |-> rows]

\* ON DELETE CASCADE of product_id: the plans left when the products of the
\* ids gone are deleted
CascadeDelete(planRows, gone) ==
    [id \in {x \in DOMAIN planRows : planRows[x].ProductID \notin gone} |->
        planRows[id]]

\* (a create of a plan that looks the product up before the insert)
ServiceCreateSubscriptionPlanLookingUp(rows, req, newID, parents, fault) ==
    LET productID == ParseUUID(req.ProductID)
        plan      == SubscriptionPlan(newID, productID.id, req.PlanName,
                                      req.Duration, req.Price)
        created   == PlanStoreCreate(rows, plan, parents, fault)
    IN  IF ~productID.ok
        THEN Outcome(BadRequest("invalid product ID format"), Nil, rows, <<>>)
        ELSE IF productID.id \notin parents
        THEN Outcome(NotFound("product not found"), Nil, rows, <<>>)
        ELSE IF created.err # NoError
        THEN Outcome(created.err, Nil, created.rows, <<"Create">>)
        ELSE Outcome(NoError, Ptr(plan), created.rows, <<"Create">>)

\* SubscriptionService.CreateSubscriptionPlan; newID is the value of uuid.New
ServiceCreateSubscriptionPlan(rows, req, newID, parents, fault) ==
    LET productID == ParseUUID(req.ProductID)
        plan      == SubscriptionPlan(newID, productID.id, req.PlanName,
                                      req.Duration, req.Price)
        created   == PlanStoreCreate(rows, plan, parents, fault)
    IN  IF ~productID.ok
        THEN Outcome(BadRequest("invalid product ID format"), Nil, rows, <<>>)
        ELSE IF created.err # NoError
        THEN Outcome(created.err, Nil, created.rows, <<"Create">>)
        ELSE Outcome(NoError, Ptr(plan), created.rows, <<"Create">>)

\* SubscriptionService.GetSubscriptionPlan; GetByID, Delete of SubscriptionRepo
\* are those of ProductRepo on the other table
ServiceGetSubscriptionPlan(rows, id, fault) ==
    LET existing == StoreGetByID(rows, id, fault)
    IN  IF existing.err = ErrRecordNotFound
        THEN Outcome(NotFound("subscription plan not found"), Nil, rows, <<"GetByID">>)
        ELSE Outcome(existing.err, existing.product, rows, <<"GetByID">>)

\* the entries of UpdateSubscriptionPlan's updates map
PlanUpdates(req) ==
    LET u1 == IF req.PlanName # <<>> THEN Put(EmptyUpdates, "plan_name", req.PlanName)
              ELSE EmptyUpdates
        u2 == IF req.Duration # Nil THEN Put(u1, "duration", req.Duration[1]) ELSE u1
    IN  IF req.Price # Nil THEN Put(u2, "price", req.Price[1]) ELSE u2

\* (a faulty update of a plan: the set of updates is sent to the store without
\* the check that it holds a field)
ServiceUpdateSubscriptionPlanUnchecked(rows, id, req, fault) ==
    LET existing == StoreGetByID(rows, id, fault)
        updated  == PlanStoreUpdate(rows, id, PlanUpdates(req), fault)
    IN  IF existing.err = ErrRecordNotFound
        THEN Outcome(NotFound("subscription plan not found"), Nil, rows, <<"GetByID">>)
        ELSE IF existing.err # NoError
        THEN Outcome(existing.err, Nil, rows, <<"GetByID">>)
        ELSE Outcome(updated.err, updated.product, updated.rows,
                     <<"GetByID", "Update">>)

\* SubscriptionService.UpdateSubscriptionPlan
ServiceUpdateSubscriptionPlan(rows, id, req, fault) ==
    LET existing == StoreGetByID(rows, id, fault)
        updates  == PlanUpdates(req)
        updated  == PlanStoreUpdate(rows, id, updates, fault)
    IN  IF existing.err = ErrRecordNotFound
        THEN Outcome(NotFound("subscription plan not found"), Nil, rows, <<"GetByID">>)
        ELSE IF existing.err # NoError
        THEN Outcome(existing.err, Nil, rows, <<"GetByID">>)
        ELSE IF DOMAIN updates = {}
        THEN Outcome(BadRequest("no fields to update"), Nil, rows, <<"GetByID">>)
        ELSE Outcome(updated.err, updated.product, updated.rows,
                     <<"GetByID", "Update">>)

\* SubscriptionService.DeleteSubscriptionPlan
ServiceDeleteSubscriptionPlan(rows, id, fault) ==
    LET existing == StoreGetByID(rows, id, fault)
        deleted  == StoreDelete(rows, id, fault)
    IN  IF existing.err = ErrRecordNotFound
        THEN Outcome(NotFound("subscription plan not found"), Nil, rows, <<"GetByID">>)
        ELSE IF existing.err # NoError
        THEN Outcome(existing.err, Nil, rows, <<"GetByID">>)
        ELSE Outcome(deleted.err, Nil, deleted.rows, <<"GetByID", "Delete">>)

\* SubscriptionRepo.GetByProductID
PlanStoreGetByProductID(rows, order, productID, limit, offset) ==
    LET matching == SelectSeq(order, LAMBDA id : rows[id].ProductID = productID)
        page     == LimitOffset(matching, limit, offset)
    IN  [i \in 1..Len(page) |-> rows[page[i]]]

\* SubscriptionRepo.CountByProductID
PlanStoreCountByProductID(rows, productID) ==
    Cardinality({id \in DOMAIN rows : rows[id].ProductID = productID})

\* SubscriptionService.ListSubscriptionPlans
ServiceListSubscriptionPlans(rows, order, productID, page, pageSize, fault) ==
    LET page1     == IF page <= 0 THEN 1 ELSE page
        pageSize1 == IF pageSize <= 0 THEN 10 ELSE pageSize
        offset    == (page1 - 1) * pageSize1
        getAll    == [query |-> "GetByProductID", filter |-> productID,
                      limit |-> pageSize1, offset |-> offset]
        count     == [query |-> "CountByProductID", filter |-> productID]
    IN  IF fault = "GetByProductID"
        THEN ListOutcome(ErrStatement, <<>>, 0, <<getAll>>)
        ELSE IF fault = "CountByProductID"
        THEN ListOutcome(ErrStatement, <<>>, 0, <<getAll, count>>)
        ELSE ListOutcome(NoError,
                         PlanStoreGetByProductID(rows, order, productID,
                                                 pageSize1, offset),
                         PlanStoreCountByProductID(rows, productID),
                         <<getAll, count>>)

(***************************************************************************)
(* internal/grpc/handlers                                                  *)
(***************************************************************************)

\* (a faulty conversion: an error of no service type keeps its text)
convertToGRPCErrorLeaking(err) ==
    IF err.class = "BadRequest" THEN [code |-> "InvalidArgument", msg |-> err.msg]
    ELSE IF err.class = "NotFound" THEN [code |-> "NotFound", msg |-> err.msg]
    ELSE [code |-> "Internal", msg |-> err.msg]

\* (a conversion that gives NotFound for the store's record-not-found)
convertToGRPCErrorOfRecord(err) ==
    IF err.class = "BadRequest" THEN [code |-> "InvalidArgument", msg |-> err.msg]
    ELSE IF err.class = "NotFound" \/ err = ErrRecordNotFound
    THEN [code |-> "NotFound", msg |-> err.msg]
    ELSE [code |-> "Internal", msg |-> "internal server error"]

\* convertToGRPCError
convertToGRPCError(err) ==
    IF err.class = "BadRequest" THEN [code |-> "InvalidArgument", msg |-> err.msg]
    ELSE IF err.class = "NotFound" THEN [code |-> "NotFound", msg |-> err.msg]
    ELSE [code |-> "Internal", msg |-> "internal server error"]

\* ProductHandler.DeleteProduct: the status it returns and the rows after it
HandlerDeleteProduct(rows, reqId, fault) ==
    LET parsed  == ParseUUID(reqId)
        outcome == ServiceDeleteProduct(rows, parsed.id, fault)
    IN  IF ~parsed.ok
        THEN [status |-> [code |-> "InvalidArgument", msg |-> "invalid product ID"],
              rows |-> rows]
        ELSE IF outcome.err # NoError
        THEN [status |-> convertToGRPCError(outcome.err), rows |-> outcome.rows]
        ELSE [status |-> StatusOK, rows |-> outcome.rows]

\* convertSubscriptionToGRPCError
convertSubscriptionToGRPCError(err) ==
    IF err.class = "NotFound" THEN [code |-> "NotFound", msg |-> err.msg]
    ELSE IF err.class = "BadRequest" THEN [code |-> "InvalidArgument", msg |-> err.msg]
    ELSE [code |-> "Internal", msg |-> "internal server error"]

\* SubscriptionHandler.DeleteSubscriptionPlan
HandlerDeleteSubscriptionPlan(rows, reqId, fault) ==
    LET parsed  == ParseUUID(reqId)
        outcome == ServiceDeleteSubscriptionPlan(rows, parsed.id, fault)
    IN  IF ~parsed.ok
        THEN [status |-> [code |-> "InvalidArgument",
                          msg |-> "invalid subscription plan ID"],
              rows |-> rows]
        ELSE IF outcome.err # NoError
        THEN [status |-> convertSubscriptionToGRPCError(outcome.err),
              rows |-> outcome.rows]
        ELSE [status |-> StatusOK, rows |-> outcome.rows]

\* convertFromProtobufProductType, on the names of the wire enumeration
convertFromProtobufProductType(pbType) ==
    IF pbType = "DIGITAL" THEN DigitalProduct
    ELSE IF pbType = "PHYSICAL" THEN PhysicalProduct
    ELSE IF pbType = "SUBSCRIPTION" THEN SubscriptionProduct
    ELSE DigitalProduct

\* a list response: the entities, the total, and the page and page size
ListResponse(items, total, page, pageSize) ==
    [items |-> items, total |-> total, page |-> page, pageSize |-> pageSize]

\* ProductHandler.ListProducts: the status, the response and the queries the
\* service sent to the store
HandlerListProducts(rows, order, req, fault) ==
    LET typeFilter == IF req.Type # Nil
                      THEN Ptr(convertFromProtobufProductType(req.Type[1]))
                      ELSE Nil
        page     == IF req.Page <= 0 THEN 1 ELSE req.Page
        pageSize == IF req.PageSize <= 0 THEN 10 ELSE req.PageSize
        listed   == ServiceListProducts(rows, order, typeFilter, page, pageSize, fault)
    IN  IF listed.err # NoError
        THEN [status |-> convertToGRPCError(listed.err), response |-> Nil,
              queries |-> listed.queries]
        ELSE [status |-> StatusOK,
              response |-> Ptr(ListResponse(listed.items, listed.total, page, pageSize)),
              queries |-> listed.queries]

\* SubscriptionHandler.ListSubscriptionPlans
HandlerListSubscriptionPlans(rows, order, req, fault) ==
    LET productID == ParseUUID(req.ProductId)
        page     == IF req.Page <= 0 THEN 1 ELSE req.Page
        pageSize == IF req.PageSize <= 0 THEN 10 ELSE req.PageSize
        listed   == ServiceListSubscriptionPlans(rows, order, productID.id,
                                                 page, pageSize, fault)
    IN  IF ~productID.ok
        THEN [status |-> [code |-> "InvalidArgument", msg |-> "invalid product ID"],
              response |-> Nil, queries |-> <<>>]
        ELSE IF listed.err # NoError
        THEN [status |-> convertSubscriptionToGRPCError(listed.err),
              response |-> Nil, queries |-> listed.queries]
        ELSE [status |-> StatusOK,
              response |-> Ptr(ListResponse(listed.items, listed.total, page, pageSize)),
              queries |-> listed.queries]

(***************************************************************************)
(* internal/grpc/handlers: validation, sanitization and the domain request *)
(***************************************************************************)

InvalidArgument(msg) == [code |-> "InvalidArgument", msg |-> msg]

\* the subscription periods the handlers accept
ValidPeriods ==
    {<<100, 97, 105, 108, 121>>,                              \* "daily"
     <<119, 101, 101, 107, 108, 121>>,                        \* "weekly"
     <<109, 111, 110, 116, 104, 108, 121>>,                   \* "monthly"
     <<113, 117, 97, 114, 116, 101, 114, 108, 121>>,          \* "quarterly"
     <<121, 101, 97, 114, 108, 121>>}                         \* "yearly"

\* pb.CreateProductRequest; the type is the name of the wire enumeration
PbCreateProductRequest(name, description, price, type, digital, physical,
                       subscription) ==
    [Name |-> name, Description |-> description, Price |-> price, Type |-> type,
     DigitalProduct |-> digital, PhysicalProduct |-> physical,
     SubscriptionProduct |-> subscription]

\* pb.UpdateProductRequest
PbUpdateProductRequest(id, name, description, price, digital, physical,
                       subscription) ==
    [Id |-> id, Name |-> name, Description |-> description, Price |-> price,
     DigitalProduct |-> digital, PhysicalProduct |-> physical,
     SubscriptionProduct |-> subscription]

\* ProductHandler.validateTypeSpecificFields: Nil, or the message of the
\* error; the link SanitizeURL returns is looked at and dropped
HandlerValidateTypeSpecificFields(productType, digital, physical, subscription) ==
    IF productType = "DIGITAL" THEN
        IF digital = Nil
        THEN Ptr("digital_product is required for digital product type")
        ELSE IF digital[1].DownloadLink # <<>>
                /\ SanitizeURL(digital[1].DownloadLink) = <<>>
        THEN Ptr("invalid download_link format - must be a valid URL")
        ELSE IF digital[1].FileSize < 0
        THEN Ptr("file_size cannot be negative")
        ELSE Nil
    ELSE IF productType = "PHYSICAL" THEN
        IF physical = Nil
        THEN Ptr("physical_product is required for physical product type")
        ELSE IF FloatLtZero(physical[1].Weight)
        THEN Ptr("weight cannot be negative")
        ELSE IF physical[1].Dimensions # <<>> /\ Len(physical[1].Dimensions) > 50
        THEN Ptr("dimensions too long")
        ELSE Nil
    ELSE IF productType = "SUBSCRIPTION" THEN
        IF subscription = Nil
        THEN Ptr("subscription_product is required for subscription product type")
        ELSE IF subscription[1].SubscriptionPeriod = <<>>
        THEN Ptr("subscription_period is required for subscription products")
        ELSE IF subscription[1].SubscriptionPeriod \notin ValidPeriods
        THEN Ptr("invalid subscription_period. Must be one of: daily, weekly, monthly, quarterly, yearly")
        ELSE IF FloatLtZero(subscription[1].RenewalPrice)
        THEN Ptr("renewal_price cannot be negative")
        ELSE Nil
    ELSE Nil

\* the domain request ProductHandler.CreateProduct builds of the request
\* whose name and description it has sanitized
DomainCreateRequest(req) ==
    [Name        |-> SanitizeString(req.Name),
     Description |-> SanitizeString(req.Description),
     Price       |-> req.Price,
     Type        |-> convertFromProtobufProductType(req.Type),
     DigitalProduct |->
         IF req.Type = "DIGITAL" /\ req.DigitalProduct # Nil
         THEN Ptr(DigitalProductInfo(req.DigitalProduct[1].FileSize,
                                     req.DigitalProduct[1].DownloadLink))
         ELSE Nil,
     PhysicalProduct |->
         IF req.Type = "PHYSICAL" THEN req.PhysicalProduct ELSE Nil,
     SubscriptionProduct |->
         IF req.Type = "SUBSCRIPTION" THEN req.SubscriptionProduct ELSE Nil]

\* what a handler leaves: its status, the domain request it handed to the
\* service (Nil when it handed none), the entity returned and the rows
Handled(status, domain, product, rows) ==
    [status |-> status, domain |-> domain, product |-> product, rows |-> rows]

\* ProductHandler.CreateProduct
HandlerCreateProduct(rows, req, fault) ==
    LET invalid == HandlerValidateTypeSpecificFields(req.Type, req.DigitalProduct,
                       req.PhysicalProduct, req.SubscriptionProduct)
        domain  == DomainCreateRequest(req)
        outcome == ServiceCreateProduct(rows, domain, fault)
    IN  IF req.Name = <<>>
        THEN Handled(InvalidArgument("product name is required"), Nil, Nil, rows)
        ELSE IF Len(req.Name) > 255
        THEN Handled(InvalidArgument("product name must be at most 255 characters"),
                     Nil, Nil, rows)
        ELSE IF Len(req.Description) > 1000
        THEN Handled(InvalidArgument(
                         "product description must be at most 1000 characters"),
                     Nil, Nil, rows)
        ELSE IF FloatLtZero(req.Price)
        THEN Handled(InvalidArgument("product price cannot be negative"),
                     Nil, Nil, rows)
        ELSE IF invalid # Nil
        THEN Handled(InvalidArgument(invalid[1]), Nil, Nil, rows)
        ELSE IF outcome.err # NoError
        THEN Handled(convertToGRPCError(outcome.err), Ptr(domain), Nil, outcome.rows)
        ELSE Handled(StatusOK, Ptr(domain), outcome.product, outcome.rows)

\* validateAndSanitizeUpdateProductRequest: the message of the error or Nil,
\* and the request with the fields it has sanitized
ValidateAndSanitizeUpdateProductRequest(req) ==
    LET name  == IF req.Name # <<>> THEN SanitizeString(req.Name) ELSE req.Name
        desc  == IF req.Description # <<>> THEN SanitizeString(req.Description)
                 ELSE req.Description
        d     == req.DigitalProduct
        f     == req.PhysicalProduct
        b     == req.SubscriptionProduct
        link  == IF d # Nil /\ d[1].DownloadLink # <<>>
                 THEN SanitizeURL(d[1].DownloadLink) ELSE <<>>
        clean == [req EXCEPT !.Name = name, !.Description = desc,
                      !.DigitalProduct =
                          IF d # Nil /\ d[1].DownloadLink # <<>>
                          THEN Ptr(DigitalProductInfo(d[1].FileSize, link))
                          ELSE d]
        err   ==
            IF req.Id = "" THEN Ptr("id is required")
            ELSE IF ~ParseUUID(req.Id).ok THEN Ptr("invalid id format")
            ELSE IF req.Name # <<>> /\ Len(name) < 2
            THEN Ptr("name must be at least 2 characters")
            ELSE IF req.Name # <<>> /\ Len(name) > 255
            THEN Ptr("name must be at most 255 characters")
            ELSE IF req.Description # <<>> /\ Len(desc) > 1000
            THEN Ptr("description must be at most 1000 characters")
            ELSE IF FloatNeZero(req.Price) /\ FloatLtZero(req.Price)
            THEN Ptr("price cannot be negative")
            ELSE IF FloatNeZero(req.Price) /\ FloatGt(req.Price, 1000000)
            THEN Ptr("price cannot exceed 1,000,000")
            ELSE IF d # Nil /\ d[1].DownloadLink # <<>> /\ link = <<>>
            THEN Ptr("invalid download_link format - must be a valid URL")
            ELSE IF d # Nil /\ d[1].FileSize < 0
            THEN Ptr("file_size cannot be negative")
            ELSE IF f # Nil /\ FloatLtZero(f[1].Weight)
            THEN Ptr("weight cannot be negative")
            ELSE IF f # Nil /\ Len(f[1].Dimensions) > 50
            THEN Ptr("dimensions too long")
            ELSE IF b # Nil /\ b[1].SubscriptionPeriod # <<>>
                    /\ b[1].SubscriptionPeriod \notin ValidPeriods
            THEN Ptr("invalid subscription_period. Must be one of: daily, weekly, monthly, quarterly, yearly")
            ELSE IF b # Nil /\ FloatLtZero(b[1].RenewalPrice)
            THEN Ptr("renewal_price cannot be negative")
            ELSE Nil
    IN  [err |-> err, req |-> clean]

\* ProductHandler.UpdateProduct
HandlerUpdateProduct(rows, req, fault) ==
    LET checked == ValidateAndSanitizeUpdateProductRequest(req)
        clean   == checked.req
        domain  == [Name |-> clean.Name, Description |-> clean.Description,
                    Price |-> IF FloatGtZero(clean.Price) THEN Ptr(clean.Price)
                              ELSE Nil,
                    DigitalProduct |-> clean.DigitalProduct,
                    PhysicalProduct |-> clean.PhysicalProduct,
                    SubscriptionProduct |-> clean.SubscriptionProduct]
        outcome == ServiceUpdateProduct(rows, ParseUUID(req.Id).id, domain, fault)
    IN  IF checked.err # Nil
        THEN Handled(InvalidArgument(checked.err[1]), Nil, Nil, rows)
        ELSE IF outcome.err # NoError
        THEN Handled(convertToGRPCError(outcome.err), Ptr(domain), Nil, outcome.rows)
        ELSE Handled(StatusOK, Ptr(domain), outcome.product, outcome.rows)

\* pb.CreateSubscriptionPlanRequest
PbCreateSubscriptionPlanRequest(productId, planName, duration, price) ==
    [ProductId |-> productId, PlanName |-> planName, Duration |-> duration,
     Price |-> price]

\* pb.UpdateSubscriptionPlanRequest
PbUpdateSubscriptionPlanRequest(id, planName, duration, price) ==
    [Id |-> id, PlanName |-> planName, Duration |-> duration, Price |-> price]

\* validateAndSanitizeCreateSubscriptionPlanRequest: the message of the error
\* or Nil, and the request with the name it has sanitized
ValidateAndSanitizeCreateSubscriptionPlanRequest(req) ==
    LET name == SanitizeString(req.PlanName)
        err  ==
            IF req.ProductId = "" THEN Ptr("product_id is required")
            ELSE IF req.PlanName = <<>> THEN Ptr("plan_name is required")
            ELSE IF Len(name) < 2 THEN Ptr("plan_name must be at least 2 characters")
            ELSE IF Len(name) > 255
            THEN Ptr("plan_name must be at most 255 characters")
            ELSE IF req.Duration <= 0 THEN Ptr("duration must be greater than 0")
            ELSE IF req.Duration > 3650
            THEN Ptr("duration cannot exceed 10 years (3650 days)")
            ELSE IF FloatLeZero(req.Price) THEN Ptr("price must be greater than 0")
            ELSE IF FloatGt(req.Price, 1000000)
            THEN Ptr("price cannot exceed 1,000,000")
            ELSE IF ~ParseUUID(req.ProductId).ok THEN Ptr("invalid product_id format")
            ELSE Nil
    IN  [err |-> err, req |-> [req EXCEPT !.PlanName = name]]

\* SubscriptionHandler.CreateSubscriptionPlan
HandlerCreateSubscriptionPlan(rows, req, newID, parents, fault) ==
    LET checked == ValidateAndSanitizeCreateSubscriptionPlanRequest(req)
        clean   == checked.req
        domain  == [ProductID |-> clean.ProductId, PlanName |-> clean.PlanName,
                    Duration |-> clean.Duration, Price |-> clean.Price]
        outcome == ServiceCreateSubscriptionPlan(rows, domain, newID, parents, fault)
    IN  IF checked.err # Nil
        THEN Handled(InvalidArgument(checked.err[1]), Nil, Nil, rows)
        ELSE IF outcome.err # NoError
        THEN Handled(convertSubscriptionToGRPCError(outcome.err), Ptr(domain), Nil,
                     outcome.rows)
        ELSE Handled(StatusOK, Ptr(domain), outcome.product, outcome.rows)

\* validateAndSanitizeUpdateSubscriptionPlanRequest
ValidateAndSanitizeUpdateSubscriptionPlanRequest(req) ==
    LET name == IF req.PlanName # <<>> THEN SanitizeString(req.PlanName)
                ELSE req.PlanName
        err  ==
            IF req.Id = "" THEN Ptr("id is required")
            ELSE IF ~ParseUUID(req.Id).ok THEN Ptr("invalid id format")
            ELSE IF req.PlanName # <<>> /\ Len(name) < 2
            THEN Ptr("plan_name must be at least 2 characters")
            ELSE IF req.PlanName # <<>> /\ Len(name) > 255
            THEN Ptr("plan_name must be at most 255 characters")
            ELSE IF req.Duration # 0 /\ req.Duration <= 0
            THEN Ptr("duration must be greater than 0")
            ELSE IF req.Duration # 0 /\ req.Duration > 3650
            THEN Ptr("duration cannot exceed 10 years (3650 days)")
            ELSE IF FloatNeZero(req.Price) /\ FloatLeZero(req.Price)
            THEN Ptr("price must be greater than 0")
            ELSE IF FloatNeZero(req.Price) /\ FloatGt(req.Price, 1000000)
            THEN Ptr("price cannot exceed 1,000,000")
            ELSE Nil
    IN  [err |-> err, req |-> [req EXCEPT !.PlanName = name]]

\* SubscriptionHandler.UpdateSubscriptionPlan
HandlerUpdateSubscriptionPlan(rows, req, fault) ==
    LET checked == ValidateAndSanitizeUpdateSubscriptionPlanRequest(req)
        clean   == checked.req
        domain  == [PlanName |-> clean.PlanName,
                    Duration |-> IF clean.Duration # 0 THEN Ptr(clean.Duration)
                                 ELSE Nil,
                    Price |-> IF FloatNeZero(clean.Price) THEN Ptr(clean.Price)
                              ELSE Nil]
        outcome == ServiceUpdateSubscriptionPlan(rows, ParseUUID(req.Id).id, domain,
                                                 fault)
    IN  IF checked.err # Nil
        THEN Handled(InvalidArgument(checked.err[1]), Nil, Nil, rows)
        ELSE IF outcome.err # NoError
        THEN Handled(convertSubscriptionToGRPCError(outcome.err), Ptr(domain), Nil,
                     outcome.rows)
        ELSE Handled(StatusOK, Ptr(domain), outcome.product, outcome.rows)

(***************************************************************************)
(* Inputs                                                                  *)
(***************************************************************************)

\* the largest file size, weight and price of a request
MaxAmount == 2

S_a   == <<97>>                  \* "a"
S_x   == <<120>>                 \* "x"
S_bx  == <<98, 58, 120>>         \* "b:x"
S_password124 == <<112, 97, 115, 115, 119, 111, 114, 100, 49, 50, 52>>     \* "password124"

\* the arguments of AddUser: a new password for a predefined user, the empty
\* username, a new user, and a password with a colon in it
AddUserCalls ==
    {<<S_admin, S_x>>, <<<<>>, S_x>>, <<S_a, S_x>>, <<S_a, S_bx>>}

\* the usernames (none with a colon) and the passwords that credentials are
\* probed with
Usernames == {S_admin, S_client, <<>>, S_a, <<98>>}

Passwords == {S_x, S_bx, S_password123, S_password124, <<>>}

H_Bearer      == <<66, 101, 97, 114, 101, 114, 32, 116, 111, 107, 101, 110>>
                                  \* "Bearer token"
H_BadBase64   == <<66, 97, 115, 105, 99, 32, 105, 110, 118, 97, 108, 105, 100,
                   45, 98, 97, 115, 101, 54, 52>>
                                  \* "Basic invalid-base64"
H_LowerScheme == <<98, 97, 115, 105, 99, 32, 89, 87, 82, 116, 97, 87, 52, 54, 99,
                   71, 70, 122, 99, 51, 100, 118, 99, 109, 81, 120, 77, 106, 77, 61>>
                                  \* "basic YWRtaW46cGFzc3dvcmQxMjM="
H_NoColon     == BasicPrefix \o B64Encode(S_admin)
                                  \* "Basic YWRtaW4=", the encoding of "admin"
H_LooseBits   == <<66, 97, 115, 105, 99, 32, 79, 110, 104, 61>>
                                  \* "Basic Onh=": decodes to ":x" as "Basic Ong=" does

\* the values of an authorization header: credentials that are or may come
\* to be in the map, one with a character of the password changed, and
\* malformed ones
Headers ==
    {EncodeBasicAuth(S_admin, S_password123), EncodeBasicAuth(S_admin, S_password124),
     EncodeBasicAuth(S_admin, S_x), EncodeBasicAuth(<<>>, S_x),
     EncodeBasicAuth(S_a, S_x), EncodeBasicAuth(S_a, S_bx)}
    \cup {H_Bearer, H_BadBase64, H_LowerScheme, H_NoColon, H_LooseBits}

\* the metadata of a call: none, none under "authorization", one value, or two
Metadatas ==
    {NoMetadata, Metadata(<<>>)}
    \cup {Metadata(<<h>>) : h \in Headers}
    \cup {Metadata(<<EncodeBasicAuth(S_admin, S_password123), H_Bearer>>),
          Metadata(<<H_Bearer, EncodeBasicAuth(S_admin, S_password123)>>)}

M_DeleteProduct ==
    <<47, 112, 114, 111, 100, 117, 99, 116, 46, 80, 114, 111, 100, 117, 99, 116,
      83, 101, 114, 118, 105, 99, 101, 47, 68, 101, 108, 101, 116, 101, 80, 114,
      111, 100, 117, 99, 116>>    \* "/product.ProductService/DeleteProduct"
M_HealthCheck ==
    <<47, 103, 114, 112, 99, 46, 104, 101, 97, 108, 116, 104, 46, 118, 49, 46, 72,
      101, 97, 108, 116, 104, 47, 67, 104, 101, 99, 107>>
                                  \* "/grpc.health.v1.Health/Check"
M_Health ==
    <<47, 112, 114, 111, 100, 117, 99, 116, 46, 80, 114, 111, 100, 117, 99, 116,
      83, 101, 114, 118, 105, 99, 101, 47, 72, 101, 97, 108, 116, 104>>
                                  \* "/product.ProductService/Health"
M_Reflection ==
    <<47, 103, 114, 112, 99, 46, 114, 101, 102, 108, 101, 99, 116, 105, 111, 110,
      46, 118, 49, 46, 83, 101, 114, 118, 101, 114, 82, 101, 102, 108, 101, 99,
      116, 105, 111, 110, 47, 83, 101, 114, 118, 101, 114, 82, 101, 102, 108,
      101, 99, 116, 105, 111, 110, 73, 110, 102, 111>>
                  \* "/grpc.reflection.v1.ServerReflection/ServerReflectionInfo"

\* info.FullMethod of a unary and of a streaming call
UnaryMethods == {M_DeleteProduct, M_HealthCheck, M_Health}

StreamMethods == {M_Reflection, M_Health}

S_A  == <<65>>                   \* "A"
S_B  == <<66>>                   \* "B"
S_d  == <<100>>                  \* "d"
S_e  == <<101>>                  \* "e"
S_L1 == <<104, 116, 116, 112, 58, 47, 47, 97>>      \* "http://a"
S_L2 == <<104, 116, 116, 112, 58, 47, 47, 98>>      \* "http://b"
S_D1 == <<49, 120, 49>>          \* "1x1"
S_D2 == <<50, 120, 50>>          \* "2x2"
S_monthly == <<109, 111, 110, 116, 104, 108, 121>>  \* "monthly"
S_yearly  == <<121, 101, 97, 114, 108, 121>>        \* "yearly"

Floats == {F(v) : v \in 0..MaxAmount} \cup {NaN}

\* the payloads a create request may carry
CreateDigitals ==
    {Nil} \cup {Ptr(DigitalProductInfo(n, l)) : n \in (0 - 1)..MaxAmount, l \in {<<>>, S_L1}}

CreatePhysicals ==
    {Nil} \cup {Ptr(PhysicalProductInfo(w, d)) : w \in Floats, d \in {<<>>, S_D1}}

CreateSubscriptions ==
    {Nil} \cup {Ptr(SubscriptionProductInfo(p, r)) : p \in {<<>>, S_monthly}, r \in Floats}

GoodDigital      == Ptr(DigitalProductInfo(1, S_L1))
GoodPhysical     == Ptr(PhysicalProductInfo(F(1), S_D1))
GoodSubscription == Ptr(SubscriptionProductInfo(S_monthly, F(1)))

CreateProductRequest(type, digital, physical, subscription) ==
    [Name |-> S_A, Description |-> S_d, Price |-> F(1), Type |-> type,
     DigitalProduct |-> digital, PhysicalProduct |-> physical,
     SubscriptionProduct |-> subscription]

\* create requests: every payload of the declared type, beside payloads of the
\* other types that are both absent or both present; and an unknown type
CreateRequests ==
    {CreateProductRequest(DigitalProduct, d, o[1], o[2]) :
        d \in CreateDigitals, o \in {<<Nil, Nil>>, <<GoodPhysical, GoodSubscription>>}}
    \cup {CreateProductRequest(PhysicalProduct, o[1], p, o[2]) :
        p \in CreatePhysicals, o \in {<<Nil, Nil>>, <<GoodDigital, GoodSubscription>>}}
    \cup {CreateProductRequest(SubscriptionProduct, o[1], o[2], s) :
        s \in CreateSubscriptions, o \in {<<Nil, Nil>>, <<GoodDigital, GoodPhysical>>}}
    \cup {CreateProductRequest("bundle", Nil, Nil, Nil),
          CreateProductRequest("", GoodDigital, GoodPhysical, GoodSubscription)}

UpdateProductRequest(name, description, price, digital, physical, subscription) ==
    [Name |-> name, Description |-> description, Price |-> price,
     DigitalProduct |-> digital, PhysicalProduct |-> physical,
     SubscriptionProduct |-> subscription]

\* the payloads an update request may carry: each sub-field present or not
UpdateDigitals ==
    {Ptr(DigitalProductInfo(n, l)) : n \in {0, MaxAmount}, l \in {<<>>, S_L2}}

UpdatePhysicals ==
    {Ptr(PhysicalProductInfo(w, d)) : w \in {F(0), F(MaxAmount), NaN}, d \in {<<>>, S_D2}}

UpdateSubscriptions ==
    {Ptr(SubscriptionProductInfo(p, r)) :
        p \in {<<>>, S_yearly}, r \in {F(0), F(MaxAmount), NaN}}

\* the name, description and price of an update request: none, or one of them
UpdateScalars ==
    {<<<<>>, <<>>, Nil>>, <<S_B, <<>>, Nil>>, <<<<>>, S_e, Nil>>,
     <<<<>>, <<>>, Ptr(F(MaxAmount))>>}

\* the payloads of an update request: none, one, or one of each type
UpdateVariants ==
    {<<Nil, Nil, Nil>>}
    \cup {<<d, Nil, Nil>> : d \in UpdateDigitals}
    \cup {<<Nil, p, Nil>> : p \in UpdatePhysicals}
    \cup {<<Nil, Nil, s>> : s \in UpdateSubscriptions}
    \cup {<<Ptr(DigitalProductInfo(MaxAmount, S_L2)),
            Ptr(PhysicalProductInfo(F(MaxAmount), S_D2)),
            Ptr(SubscriptionProductInfo(S_yearly, F(MaxAmount)))>>}

UpdateRequests ==
    {UpdateProductRequest(s[1], s[2], s[3], v[1], v[2], v[3]) :
        s \in UpdateScalars, v \in UpdateVariants}

UUIDs == {NilUUID, OtherUUID}

\* the calls of UpdateProduct: every request on the id a created product has,
\* two of them on an id no product has
UpdateCalls ==
    {<<NilUUID, r>> : r \in UpdateRequests}
    \cup {<<OtherUUID, UpdateProductRequest(S_B, <<>>, Nil, Nil, Nil, Nil)>>,
          <<OtherUUID, UpdateProductRequest(<<>>, <<>>, Nil, Nil, Nil, Nil)>>}

\* the request the products of the gate's specification are created with
SeedRequest == CreateProductRequest(DigitalProduct, GoodDigital, Nil, Nil)

(***************************************************************************)
(* State and actions                                                       *)
(*   users     the Authenticator's map, username -> password               *)
(*   products  the rows of the product store by id                         *)
(*   plans     the rows of the subscription plan store by id               *)
(*   uuids     the number of values uuid.New has returned                  *)
(*   call      the last operation: its inputs and what it returned, and,   *)
(*             of a call through an interceptor, what the gate did with    *)
(*             the call before it                                          *)
(*   inflight  the calls that have begun and not returned, one to a        *)
(*             goroutine: the statement each is to send next and what it   *)
(*             holds from the statements before                            *)
(* An action binds what it computes with \E x \in {e}, which evaluates e     *)
(* once.                                                                   *)
(***************************************************************************)

NoCall ==
    [op |-> "none", prior |-> "none", method |-> <<>>, md |-> NoMetadata,
     req |-> Nil, status |-> StatusOK, invoked |-> FALSE, storeOps |-> <<>>,
     product |-> Nil, fault |-> NoFault, list |-> Nil, result |-> Nil]

\* the most calls in flight at a time
MaxCalls == 2

\* a goroutine that serves no call
IdleCall == [op |-> "idle", pc |-> "", id |-> "", held |-> Nil]

NoCalls == [k \in 1..MaxCalls |-> IdleCall]

\* what the gate did with the operation before this one, when that was a call
\* through an interceptor
Prior ==
    IF call.op \in {"Unary", "Stream"}
    THEN (IF call.invoked THEN "let through" ELSE "refused")
    ELSE "none"

Init ==
    /\ users = NewAuthenticator
    /\ products = NoRows
    /\ plans = NoRows
    /\ uuids = 0
    /\ call = NoCall
    /\ inflight = NoCalls

\* Authenticator.AddUser
AddUser(username, password) ==
    /\ users' = MapAssign(users, username, password)
    /\ call' = [NoCall EXCEPT !.op = "AddUser",
                              !.req = [username |-> username, password |-> password]]
    /\ UNCHANGED <<products, plans, uuids, inflight>>

\* a unary call through UnaryInterceptor, the handler being DeleteProduct's
UnaryCall(fullMethod, md, reqId) ==
    \E gate \in {UnaryGate(users, fullMethod, md)} :
    \E handled \in {HandlerDeleteProduct(products, reqId, NoFault)} :
        /\ products' = IF gate = StatusOK THEN handled.rows ELSE products
        /\ plans' = CascadeDelete(plans, DOMAIN products \ DOMAIN products')
        /\ call' = [NoCall EXCEPT !.op = "Unary", !.prior = Prior,
                                  !.method = fullMethod, !.md = md, !.req = reqId,
                                  !.status = IF gate = StatusOK THEN handled.status
                                             ELSE gate,
                                  !.invoked = (gate = StatusOK)]
        /\ UNCHANGED <<users, uuids, inflight>>

\* a streaming call through StreamInterceptor; the streaming handlers (server
\* reflection) leave the store alone
StreamCall(fullMethod, md) ==
    \E gate \in {StreamGate(users, fullMethod, md)} :
        /\ call' = [NoCall EXCEPT !.op = "Stream", !.prior = Prior,
                                  !.method = fullMethod, !.md = md,
                                  !.status = gate,
                                  !.invoked = (gate = StatusOK)]
        /\ UNCHANGED <<users, products, plans, uuids, inflight>>

\* a call of the service recorded: the request, the error, the store
\* operations and the entity returned
ServiceCall(op, req, fault, outcome) ==
    [NoCall EXCEPT !.op = op, !.req = req, !.status = outcome.err,
                   !.invoked = TRUE, !.storeOps = outcome.storeOps,
                   !.product = outcome.product, !.fault = fault]

\* ProductService.CreateProduct
CreateProduct(req, fault) ==
    \E outcome \in {ServiceCreateProduct(products, req, fault)} :
        /\ products' = outcome.rows
        /\ call' = ServiceCall("CreateProduct", req, fault, outcome)
        /\ UNCHANGED <<users, plans, uuids, inflight>>

\* ProductService.UpdateProduct
UpdateProduct(id, req, fault) ==
    \E outcome \in {ServiceUpdateProduct(products, id, req, fault)} :
        /\ products' = outcome.rows
        /\ call' = ServiceCall("UpdateProduct", [id |-> id, fields |-> req], fault,
                               outcome)
        /\ UNCHANGED <<users, plans, uuids, inflight>>

\* ProductService.DeleteProduct
DeleteProduct(id, fault) ==
    \E outcome \in {ServiceDeleteProduct(products, id, fault)} :
        /\ products' = outcome.rows
        /\ plans' = CascadeDelete(plans, DOMAIN products \ DOMAIN outcome.rows)
        /\ call' = ServiceCall("DeleteProduct", [id |-> id], fault, outcome)
        /\ UNCHANGED <<users, uuids, inflight>>

\* the gate: users are added, products enter the store through the product
\* service, and calls arrive at the two interceptors
Next ==
    \/ \E c \in AddUserCalls : AddUser(c[1], c[2])
    \/ \E m \in UnaryMethods, md \in Metadatas : UnaryCall(m, md, NilUUID)
    \/ \E m \in StreamMethods, md \in Metadatas : StreamCall(m, md)
    \/ CreateProduct(SeedRequest, NoFault)

Spec == Init /\ [][Next]_vars

\* the product service over its store, the database answering every statement
NextProduct ==
    \/ \E req \in CreateRequests : CreateProduct(req, NoFault)
    \/ \E c \in UpdateCalls : UpdateProduct(c[1], c[2], NoFault)
    \/ \E id \in UUIDs : DeleteProduct(id, NoFault)

SpecProduct == Init /\ [][NextProduct]_vars

(***************************************************************************)
(* The two services over their stores, statements of the database failing  *)
(***************************************************************************)

\* ProductService.GetProduct
GetProduct(id, fault) ==
    \E outcome \in {ServiceGetProduct(products, id, fault)} :
        /\ call' = ServiceCall("GetProduct", [id |-> id], fault, outcome)
        /\ UNCHANGED <<users, products, plans, uuids, inflight>>

\* SubscriptionService.CreateSubscriptionPlan; uuid.New is called once the
\* product id of the request has parsed
CreateSubscriptionPlan(req, fault) ==
    /\ uuids < MaxNew
    /\ \E outcome \in {ServiceCreateSubscriptionPlan(plans, req, NewUUID(uuids + 1),
                                                     DOMAIN products, fault)} :
        /\ plans' = outcome.rows
        /\ uuids' = IF ParseUUID(req.ProductID).ok THEN uuids + 1 ELSE uuids
        /\ call' = ServiceCall("CreateSubscriptionPlan", req, fault, outcome)
        /\ UNCHANGED <<users, products, inflight>>

\* SubscriptionService.GetSubscriptionPlan
GetSubscriptionPlan(id, fault) ==
    \E outcome \in {ServiceGetSubscriptionPlan(plans, id, fault)} :
        /\ call' = ServiceCall("GetSubscriptionPlan", [id |-> id], fault, outcome)
        /\ UNCHANGED <<users, products, plans, uuids, inflight>>

\* SubscriptionService.UpdateSubscriptionPlan
UpdateSubscriptionPlan(id, req, fault) ==
    \E outcome \in {ServiceUpdateSubscriptionPlan(plans, id, req, fault)} :
        /\ plans' = outcome.rows
        /\ call' = ServiceCall("UpdateSubscriptionPlan", [id |-> id, fields |-> req],
                               fault, outcome)
        /\ UNCHANGED <<users, products, uuids, inflight>>

\* SubscriptionService.DeleteSubscriptionPlan
DeleteSubscriptionPlan(id, fault) ==
    \E outcome \in {ServiceDeleteSubscriptionPlan(plans, id, fault)} :
        /\ plans' = outcome.rows
        /\ call' = ServiceCall("DeleteSubscriptionPlan", [id |-> id], fault, outcome)
        /\ UNCHANGED <<users, products, uuids, inflight>>

\* a call of a handler recorded: the wire request and the status
HandlerCall(op, req, fault, status) ==
    [NoCall EXCEPT !.op = op, !.req = req, !.status = status, !.invoked = TRUE,
                   !.fault = fault]

\* ProductHandler.DeleteProduct
DeleteProductRPC(reqId, fault) ==
    \E handled \in {HandlerDeleteProduct(products, reqId, fault)} :
        /\ products' = handled.rows
        /\ plans' = CascadeDelete(plans, DOMAIN products \ DOMAIN handled.rows)
        /\ call' = HandlerCall("DeleteProductRPC", [id |-> reqId], fault,
                               handled.status)
        /\ UNCHANGED <<users, uuids, inflight>>

\* SubscriptionHandler.DeleteSubscriptionPlan
DeleteSubscriptionPlanRPC(reqId, fault) ==
    \E handled \in {HandlerDeleteSubscriptionPlan(plans, reqId, fault)} :
        /\ plans' = handled.rows
        /\ call' = HandlerCall("DeleteSubscriptionPlanRPC", [id |-> reqId], fault,
                               handled.status)
        /\ UNCHANGED <<users, products, uuids, inflight>>

\* the ids of the model in one order, and the two orders in which the
\* database returns the rows of a table: this one and its reverse
KnownUUIDs == <<NilUUID, OtherUUID>> \o [n \in 1..(MaxRows + MaxNew) |-> NewUUID(n)]

Reverse(q) == [i \in 1..Len(q) |-> q[Len(q) + 1 - i]]

StoreOrders(rows) ==
    LET order == SelectSeq(KnownUUIDs, LAMBDA id : id \in DOMAIN rows)
    IN  {order, Reverse(order)}

\* a list recorded: the request, the error, the page and the queries
ListCall(op, req, fault, err, response, queries) ==
    [NoCall EXCEPT !.op = op, !.req = req, !.status = err, !.invoked = TRUE,
                   !.fault = fault,
                   !.list = Ptr([response |-> response, queries |-> queries])]

\* ProductService.ListProducts
ListProducts(order, typeFilter, page, pageSize, fault) ==
    \E listed \in {ServiceListProducts(products, order, typeFilter, page, pageSize,
                                       fault)} :
        /\ call' = ListCall("ListProducts",
                            [order |-> order, filter |-> typeFilter, page |-> page,
                             pageSize |-> pageSize],
                            fault, listed.err,
                            [items |-> listed.items, total |-> listed.total],
                            listed.queries)
        /\ UNCHANGED <<users, products, plans, uuids, inflight>>

\* SubscriptionService.ListSubscriptionPlans
ListSubscriptionPlans(order, productID, page, pageSize, fault) ==
    \E listed \in {ServiceListSubscriptionPlans(plans, order, productID, page,
                                                pageSize, fault)} :
        /\ call' = ListCall("ListSubscriptionPlans",
                            [order |-> order, filter |-> productID, page |-> page,
                             pageSize |-> pageSize],
                            fault, listed.err,
                            [items |-> listed.items, total |-> listed.total],
                            listed.queries)
        /\ UNCHANGED <<users, products, plans, uuids, inflight>>

\* ProductHandler.ListProducts
ListProductsRPC(order, req, fault) ==
    \E handled \in {HandlerListProducts(products, order, req, fault)} :
        /\ call' = ListCall("ListProductsRPC", [order |-> order, wire |-> req],
                            fault, handled.status, handled.response, handled.queries)
        /\ UNCHANGED <<users, products, plans, uuids, inflight>>

\* SubscriptionHandler.ListSubscriptionPlans
ListSubscriptionPlansRPC(order, req, fault) ==
    \E handled \in {HandlerListSubscriptionPlans(plans, order, req, fault)} :
        /\ call' = ListCall("ListSubscriptionPlansRPC", [order |-> order, wire |-> req],
                            fault, handled.status, handled.response, handled.queries)
        /\ UNCHANGED <<users, products, plans, uuids, inflight>>

\* a products table that holds a row other writers of the database inserted,
\* its id from the default of the id column
SeedRows ==
    [id \in {OtherUUID} |->
        [ID |-> OtherUUID, Name |-> S_A, Description |-> S_d, Price |-> F(1),
         Type |-> PhysicalProduct, DigitalProductInfo |-> Nil,
         PhysicalProductInfo |-> GoodPhysical, SubscriptionProductInfo |-> Nil]]

\* the requests of the store specification
StoreCreateRequests ==
    {CreateProductRequest(DigitalProduct, GoodDigital, GoodPhysical, Nil),
     CreateProductRequest("bundle", Nil, Nil, Nil)}

U_name   == UpdateProductRequest(S_B, <<>>, Nil, Nil, Nil, Nil)
U_link   == UpdateProductRequest(<<>>, <<>>, Nil,
                                 Ptr(DigitalProductInfo(0, S_L2)), Nil, Nil)
U_weight == UpdateProductRequest(<<>>, <<>>, Nil, Nil,
                                 Ptr(PhysicalProductInfo(F(MaxAmount), <<>>)), Nil)
U_none   == UpdateProductRequest(<<>>, <<>>, Nil, Nil, Nil, Nil)
U_both   == UpdateProductRequest(S_B, <<>>, Nil,
                                 Ptr(DigitalProductInfo(0, S_L2)), Nil, Nil)

\* the calls with a failing statement: the id, the statement
FaultyGets    == {<<NilUUID, NoFault>>, <<NilUUID, "GetByID">>, <<OtherUUID, NoFault>>}
FaultyDeletes == FaultyGets \cup {<<NilUUID, "Delete">>}

\* the calls of UpdateProduct: the id, the request, the statement that fails
StoreUpdateCalls ==
    {<<NilUUID, U_name, f>> : f \in {NoFault, "GetByID", "Update", "Update.First"}}
    \cup {<<NilUUID, r, NoFault>> : r \in {U_link, U_weight, U_none}}
    \cup {<<OtherUUID, U_both, NoFault>>, <<OtherUUID, U_link, NoFault>>}

CreateSubscriptionPlanRequest(productID, planName, duration, price) ==
    [ProductID |-> productID, PlanName |-> planName, Duration |-> duration,
     Price |-> price]

UpdateSubscriptionPlanRequest(planName, duration, price) ==
    [PlanName |-> planName, Duration |-> duration, Price |-> price]

PlanCreateRequests ==
    {CreateSubscriptionPlanRequest(NilUUID, S_A, 1, F(1)),
     CreateSubscriptionPlanRequest("not-a-uuid", S_A, 1, F(1))}

P_name     == UpdateSubscriptionPlanRequest(S_B, Nil, Nil)
P_duration == UpdateSubscriptionPlanRequest(<<>>, Ptr(0), Nil)
P_none     == UpdateSubscriptionPlanRequest(<<>>, Nil, Nil)

PlanGets    == {<<NewUUID(1), NoFault>>, <<NewUUID(1), "GetByID">>,
                <<OtherUUID, NoFault>>}
PlanDeletes == PlanGets \cup {<<NewUUID(1), "Delete">>, <<NewUUID(MaxNew), NoFault>>}

PlanUpdateCalls ==
    {<<NewUUID(1), P_name, f>> : f \in {NoFault, "GetByID", "Update", "Update.First"}}
    \cup {<<NewUUID(1), P_duration, NoFault>>, <<NewUUID(1), P_none, NoFault>>,
          <<NewUUID(MaxNew), P_name, NoFault>>, <<OtherUUID, P_name, NoFault>>}

\* the calls of the delete handlers: the id on the wire, the statement
ProductWireDeletes == FaultyDeletes \cup {<<"not-a-uuid", NoFault>>}
PlanWireDeletes    == PlanDeletes \cup {<<"not-a-uuid", NoFault>>}

InitStore ==
    /\ users = NewAuthenticator
    /\ products = SeedRows
    /\ plans = NoRows
    /\ uuids = 0
    /\ call = NoCall
    /\ inflight = NoCalls

NextStore ==
    \/ \E req \in StoreCreateRequests, fault \in {NoFault, "Create"} :
          CreateProduct(req, fault)
    \/ \E c \in FaultyGets : GetProduct(c[1], c[2])
    \/ \E c \in StoreUpdateCalls : UpdateProduct(c[1], c[2], c[3])
    \/ \E c \in FaultyDeletes : DeleteProduct(c[1], c[2])
    \/ \E order \in StoreOrders(products) :
          ListProducts(order, Nil, 1, MaxRows, NoFault)
    \/ \E req \in PlanCreateRequests, fault \in {NoFault, "Create"} :
          CreateSubscriptionPlan(req, fault)
    \/ \E c \in PlanGets : GetSubscriptionPlan(c[1], c[2])
    \/ \E c \in PlanUpdateCalls : UpdateSubscriptionPlan(c[1], c[2], c[3])
    \/ \E c \in PlanDeletes : DeleteSubscriptionPlan(c[1], c[2])
    \/ \E order \in StoreOrders(plans) :
          ListSubscriptionPlans(order, NilUUID, 1, MaxRows, NoFault)
    \/ \E c \in ProductWireDeletes : DeleteProductRPC(c[1], c[2])
    \/ \E c \in PlanWireDeletes : DeleteSubscriptionPlanRPC(c[1], c[2])

SpecStore == InitStore /\ [][NextStore]_vars

\* entities created, read, listed and deleted, the database answering all but
\* some lookups and deletes
NextDelete ==
    \/ \E req \in StoreCreateRequests : CreateProduct(req, NoFault)
    \/ \E c \in FaultyGets : GetProduct(c[1], c[2])
    \/ \E c \in FaultyDeletes : DeleteProduct(c[1], c[2])
    \/ \E order \in StoreOrders(products) : ListProducts(order, Nil, 1, MaxRows, NoFault)
    \/ \E req \in PlanCreateRequests : CreateSubscriptionPlan(req, NoFault)
    \/ \E c \in PlanGets : GetSubscriptionPlan(c[1], c[2])
    \/ \E c \in PlanDeletes : DeleteSubscriptionPlan(c[1], c[2])
    \/ \E order \in StoreOrders(plans) :
          ListSubscriptionPlans(order, NilUUID, 1, MaxRows, NoFault)

\* the server goes on serving the calls that arrive: it never stops while a
\* call can be served
SpecDelete == InitStore /\ [][NextDelete]_vars /\ WF_vars(NextDelete)

(***************************************************************************)
(* The lists of the two services and of their handlers over tables that    *)
(* no call writes                                                          *)
(***************************************************************************)

\* the sizes of the tables: none, a few rows, more rows than a default page
TableSizes == {0, 4, MaxRows}

\* a products table of k rows, every sixth of them physical, the others
\* digital, their ids from the default of the id column
ProductTable(k) ==
    [id \in {NewUUID(n) : n \in 1..k} |->
        LET n == CHOOSE m \in 1..k : NewUUID(m) = id
        IN  [ID |-> id, Name |-> S_A, Description |-> S_d, Price |-> F(1),
             Type |-> IF n % 6 = 0 THEN PhysicalProduct ELSE DigitalProduct,
             DigitalProductInfo |-> IF n % 6 = 0 THEN Nil ELSE GoodDigital,
             PhysicalProductInfo |-> IF n % 6 = 0 THEN GoodPhysical ELSE Nil,
             SubscriptionProductInfo |-> Nil]]

\* a plans table of k rows, the plans of the first product of the products
\* table of k rows, but every sixth, of the second
PlanTable(k) ==
    [id \in {NewUUID(n) : n \in 1..k} |->
        LET n == CHOOSE m \in 1..k : NewUUID(m) = id
        IN  SubscriptionPlan(id, IF n % 6 = 0 THEN NewUUID(2) ELSE NewUUID(1),
                             S_A, 1, F(1))]

\* the pages and the page sizes asked for
Pages     == {-1, 0, 1, 2}
PageSizes == {-1, 0, 3, 10}

TypeFilters == {Nil, Ptr(DigitalProduct), Ptr(PhysicalProduct)}

\* the calls of ProductService.ListProducts: filter, page, page size, the
\* query that fails
ProductLists ==
    {<<f, p, n, NoFault>> : f \in TypeFilters, p \in Pages, n \in PageSizes}
    \cup {<<Nil, 0, 0, "GetAll">>, <<Nil, 0, 0, "Count">>}

\* the calls of SubscriptionService.ListSubscriptionPlans
PlanLists ==
    {<<id, p, n, NoFault>> : id \in {NewUUID(1), NewUUID(2)}, p \in {0, 1, 2},
                             n \in {0, 3, 10}}
    \cup {<<NewUUID(1), 0, 0, "GetByProductID">>,
          <<NewUUID(1), 0, 0, "CountByProductID">>}

\* pb.ListProductsRequest
ListProductsRequest(type, page, pageSize) ==
    [Type |-> type, Page |-> page, PageSize |-> pageSize]

\* pb.ListSubscriptionPlansRequest
ListSubscriptionPlansRequest(productId, page, pageSize) ==
    [ProductId |-> productId, Page |-> page, PageSize |-> pageSize]

ProductWireLists ==
    {<<ListProductsRequest(t, p, n), NoFault>> :
        t \in {Nil, Ptr("DIGITAL"), Ptr("UNSPECIFIED")}, p \in {0, 2}, n \in {0, 3}}
    \cup {<<ListProductsRequest(Nil, 0, 0), "Count">>}

PlanWireLists ==
    {<<ListSubscriptionPlansRequest(id, p, n), NoFault>> :
        id \in {NewUUID(1), "not-a-uuid"}, p \in {0, 2}, n \in {0, 3}}
    \cup {<<ListSubscriptionPlansRequest(NewUUID(1), 0, 0), "GetByProductID">>}

InitList ==
    /\ users = NewAuthenticator
    /\ \E k \in TableSizes : products = ProductTable(k) /\ plans = PlanTable(k)
    /\ uuids = 0
    /\ call = NoCall
    /\ inflight = NoCalls

NextList ==
    \/ \E order \in StoreOrders(products), c \in ProductLists :
          ListProducts(order, c[1], c[2], c[3], c[4])
    \/ \E order \in StoreOrders(plans), c \in PlanLists :
          ListSubscriptionPlans(order, c[1], c[2], c[3], c[4])
    \/ \E order \in StoreOrders(products), c \in ProductWireLists :
          ListProductsRPC(order, c[1], c[2])
    \/ \E order \in StoreOrders(plans), c \in PlanWireLists :
          ListSubscriptionPlansRPC(order, c[1], c[2])

SpecList == InitList /\ [][NextList]_vars

(***************************************************************************)
(* The sanitizer applied to texts and to links                             *)
(***************************************************************************)

\* the length of the texts the sanitizer is given
MaxText == 3

\* the characters of the texts: a space, a letter, and the reserved & < "
TextChars == {32, 97, 38, 60, 34}

RECURSIVE TextsOf(_)
TextsOf(n) ==
    IF n = 0 THEN {<<>>}
    ELSE TextsOf(n - 1)
         \cup {<<c>> \o t : c \in TextChars, t \in {u \in TextsOf(n - 1) : Len(u) = n - 1}}

Texts == TextsOf(MaxText)

\* the links: white space or none around a scheme or none and a rest or none
LinkPads    == {<<>>, <<32>>, <<9, 32>>}
LinkSchemes == {<<>>, S_http, S_https,
                <<102, 116, 112, 58, 47, 47>>,              \* "ftp://"
                <<72, 84, 84, 80, 58, 47, 47>>,             \* "HTTP://"
                <<104, 116, 116, 112, 58, 47>>}             \* "http:/"
LinkRests   == {<<>>, <<97>>, <<97, 32, 98>>, <<120>> \o S_http}

Links ==
    {a \o m \o r \o b : a \in LinkPads, m \in LinkSchemes, r \in LinkRests,
                        b \in LinkPads}

\* SanitizeString applied to a text
ApplySanitizeString(input) ==
    /\ call' = [NoCall EXCEPT !.op = "SanitizeString", !.req = input,
                              !.invoked = TRUE,
                              !.result = Ptr(SanitizeString(input))]
    /\ UNCHANGED <<users, products, plans, uuids, inflight>>

\* SanitizeString applied to what it returned
ApplySanitizeStringAgain ==
    /\ call.op = "SanitizeString"
    /\ Len(call.req) <= MaxText
    /\ ApplySanitizeString(call.result[1])

\* SanitizeURL applied to a link
ApplySanitizeURL(input) ==
    /\ call' = [NoCall EXCEPT !.op = "SanitizeURL", !.req = input,
                              !.invoked = TRUE,
                              !.result = Ptr(SanitizeURL(input))]
    /\ UNCHANGED <<users, products, plans, uuids, inflight>>

NextSanitize ==
    \/ \E input \in Texts : ApplySanitizeString(input)
    \/ ApplySanitizeStringAgain
    \/ \E input \in Links : ApplySanitizeURL(input)

SpecSanitize == Init /\ [][NextSanitize]_vars

(***************************************************************************)
(* The handlers that create and update: the wire request, the domain       *)
(* request the handler hands to the service, and the store after it        *)
(***************************************************************************)

\* a call of a handler recorded with the domain request and the entity
HandledCall(op, req, fault, handled) ==
    [NoCall EXCEPT !.op = op, !.req = req, !.status = handled.status,
                   !.invoked = TRUE, !.fault = fault,
                   !.result = handled.domain, !.product = handled.product]

\* ProductHandler.CreateProduct
CreateProductRPC(req, fault) ==
    \E handled \in {HandlerCreateProduct(products, req, fault)} :
        /\ products' = handled.rows
        /\ call' = HandledCall("CreateProductRPC", req, fault, handled)
        /\ UNCHANGED <<users, plans, uuids, inflight>>

\* ProductHandler.UpdateProduct
UpdateProductRPC(req, fault) ==
    \E handled \in {HandlerUpdateProduct(products, req, fault)} :
        /\ products' = handled.rows
        /\ call' = HandledCall("UpdateProductRPC", req, fault, handled)
        /\ UNCHANGED <<users, plans, uuids, inflight>>

\* SubscriptionHandler.CreateSubscriptionPlan; the service calls uuid.New once
\* the product id has parsed
CreateSubscriptionPlanRPC(req, fault) ==
    /\ uuids < MaxNew
    /\ \E handled \in {HandlerCreateSubscriptionPlan(plans, req, NewUUID(uuids + 1),
                                                     DOMAIN products, fault)} :
        /\ plans' = handled.rows
        /\ uuids' = IF handled.domain # Nil THEN uuids + 1 ELSE uuids
        /\ call' = HandledCall("CreateSubscriptionPlanRPC", req, fault, handled)
        /\ UNCHANGED <<users, products, inflight>>

\* SubscriptionHandler.UpdateSubscriptionPlan
UpdateSubscriptionPlanRPC(req, fault) ==
    \E handled \in {HandlerUpdateSubscriptionPlan(plans, req, fault)} :
        /\ plans' = handled.rows
        /\ call' = HandledCall("UpdateSubscriptionPlanRPC", req, fault, handled)
        /\ UNCHANGED <<users, products, uuids, inflight>>

Repeat(c, n) == [i \in 1..n |-> c]

S_AB == <<65, 66>>                                     \* "AB"
N_blank == <<32, 32>>                                  \* two spaces
N_long  == Repeat(97, 252) \o <<38>>                   \* 252 a's and an &
N_over  == Repeat(97, 256)
L_padded == <<32, 32>> \o S_L1 \o <<32, 32>>           \* "  http://a  "
L_ftp    == <<102, 116, 112, 58, 47, 47, 97>>          \* "ftp://a"

WireNames == {<<>>, S_A, S_AB, N_blank, N_long, N_over}

WireLinks == {<<>>, S_L1, L_padded, L_ftp}

\* create requests of the wire: digital products of every name and link, and
\* one product of each other type
WireCreateProducts ==
    {PbCreateProductRequest(name, S_d, F(1), "DIGITAL",
                            Ptr(DigitalProductInfo(1, link)), Nil, Nil) :
        name \in WireNames, link \in WireLinks}
    \cup {PbCreateProductRequest(S_A, S_d, F(1), "PHYSICAL", Nil, GoodPhysical, Nil),
          PbCreateProductRequest(S_A, S_d, F(0 - 1), "SUBSCRIPTION", Nil, Nil,
                                 GoodSubscription),
          PbCreateProductRequest(S_A, S_d, F(1), "SUBSCRIPTION", Nil, Nil,
                                 GoodSubscription),
          PbCreateProductRequest(S_A, S_d, F(1), "UNSPECIFIED", Nil, Nil, Nil)}

\* update requests of the wire: a name or none, a link or none
WireUpdateProducts ==
    {PbUpdateProductRequest(id, name, <<>>, F(0), digital, Nil, Nil) :
        id \in {NilUUID, "", "not-a-uuid"},
        name \in {<<>>, S_AB, N_blank, N_long},
        digital \in {Nil} \cup {Ptr(DigitalProductInfo(0, link)) : link \in WireLinks}}

NextProductHandlers ==
    \/ \E req \in WireCreateProducts, fault \in {NoFault, "Create"} :
          CreateProductRPC(req, fault)
    \/ \E req \in WireUpdateProducts : UpdateProductRPC(req, NoFault)

SpecProductHandlers == Init /\ [][NextProductHandlers]_vars

\* prices of plans: 1, 29.99, 29.999, 0.001, not a number, 0, above the most
PlanPrices == {F(1), Milli(29990), Milli(29999), Milli(1), NaN, F(0), F(1000001)}

WireCreatePlans ==
    {PbCreateSubscriptionPlanRequest(OtherUUID, S_AB, duration, F(1)) :
        duration \in {0, 30, 3650, 3651}}
    \cup {PbCreateSubscriptionPlanRequest(OtherUUID, S_AB, 30, price) :
            price \in PlanPrices}
    \cup {PbCreateSubscriptionPlanRequest("", S_AB, 30, F(1)),
          PbCreateSubscriptionPlanRequest("not-a-uuid", S_AB, 30, F(1)),
          PbCreateSubscriptionPlanRequest(NilUUID, S_AB, 30, F(1)),
          PbCreateSubscriptionPlanRequest(OtherUUID, S_A, 30, F(1))}

WireUpdatePlans ==
    {PbUpdateSubscriptionPlanRequest(NewUUID(1), <<>>, duration, F(0)) :
        duration \in {0 - 1, 7, 3651}}
    \cup {PbUpdateSubscriptionPlanRequest(NewUUID(1), <<>>, 0, price) :
            price \in {F(0), F(0 - 1), Milli(1), NaN, F(1000001)}}
    \cup {PbUpdateSubscriptionPlanRequest("", S_AB, 0, F(0)),
          PbUpdateSubscriptionPlanRequest(NewUUID(1), S_A, 0, F(0))}

\* create requests of the service that the handler's checks accept
ValidPlanRequests ==
    {CreateSubscriptionPlanRequest(OtherUUID, S_AB, 30, price) :
        price \in {Milli(29990), Milli(29999)}}

NextPlanHandlers ==
    \/ \E req \in WireCreatePlans, fault \in {NoFault, "Create"} :
          CreateSubscriptionPlanRPC(req, fault)
    \/ \E req \in WireUpdatePlans : UpdateSubscriptionPlanRPC(req, NoFault)
    \/ \E req \in ValidPlanRequests : CreateSubscriptionPlan(req, NoFault)
    \/ \E n \in 1..MaxNew : GetSubscriptionPlan(NewUUID(n), NoFault)

SpecPlanHandlers == InitStore /\ [][NextPlanHandlers]_vars

(***************************************************************************)
(* Calls in flight together. A call sends its statements to the database   *)
(* one at a time and the database runs the statements of the calls in any  *)
(* order; no service method opens a transaction.                           *)
(***************************************************************************)

\* the update request of the calls in flight
RaceUpdate == UpdateProductRequest(S_B, <<>>, Nil, Nil, Nil, Nil)

\* a call begins, on the first goroutine that serves none: the handler has
\* parsed the id and called the service
BeginCall(k, op, id) ==
    /\ inflight[k].op = "idle"
    /\ \A j \in 1..(k - 1) : inflight[j].op # "idle"
    /\ inflight' = [inflight EXCEPT ![k] =
           [op |-> op, id |-> id, held |-> Nil,
            pc |-> CASE op = "ListProducts" -> "GetAll"
                     [] op = "ListSubscriptionPlans" -> "GetByProductID"
                     [] OTHER -> "GetByID"]]
    /\ UNCHANGED <<users, products, plans, uuids, call>>

\* the call of goroutine k returns: the status the handler gives and the
\* statements the call sent
ReturnCall(k, err, product, storeOps, result) ==
    /\ call' = [NoCall EXCEPT !.op = inflight[k].op,
                   !.req = [id |-> inflight[k].id],
                   !.status = IF err = NoError THEN StatusOK
                              ELSE convertToGRPCError(err),
                   !.invoked = TRUE, !.storeOps = storeOps,
                   !.product = product, !.result = result]
    /\ inflight' = [inflight EXCEPT ![k] = IdleCall]

\* (a count of the rows that the page was read from)
RaceCountOfSnapshot(rows, snapshot) == StoreCount(snapshot, Nil)

\* the Count of ProductService.ListProducts, sent after the page was read;
\* snapshot is the table as it was when the page was read
RaceCount(rows, snapshot) == StoreCount(rows, Nil)

\* ProductService.UpdateProduct, GetByID: the existence check
UpdateGetByID(k) ==
    /\ inflight[k].op = "UpdateProduct" /\ inflight[k].pc = "GetByID"
    /\ \E existing \in {StoreGetByID(products, inflight[k].id, NoFault)} :
         IF existing.err # NoError
         THEN /\ ReturnCall(k, IF existing.err = ErrRecordNotFound
                               THEN NotFound("product not found")
                               ELSE existing.err,
                            Nil, <<"GetByID">>, Nil)
              /\ UNCHANGED <<users, products, plans, uuids>>
         ELSE \E updates \in {VariantUpdates(existing.product[1].Type, RaceUpdate,
                                             ScalarUpdates(RaceUpdate))} :
                IF DOMAIN updates = {}
                THEN /\ ReturnCall(k, BadRequest("no fields to update"), Nil,
                                   <<"GetByID">>, Nil)
                     /\ UNCHANGED <<users, products, plans, uuids>>
                ELSE /\ inflight' = [inflight EXCEPT ![k].pc = "Update",
                                                     ![k].held = Ptr(updates)]
                     /\ UNCHANGED <<users, products, plans, uuids, call>>

\* ProductRepo.Update, the UPDATE statement: no row of the id is no error
UpdateUpdates(k) ==
    /\ inflight[k].op = "UpdateProduct" /\ inflight[k].pc = "Update"
    /\ \E id \in {inflight[k].id} :
         products' = IF id \in DOMAIN products
                     THEN [products EXCEPT ![id] =
                              ApplyUpdates(products[id], inflight[k].held[1])]
                     ELSE products
    /\ inflight' = [inflight EXCEPT ![k].pc = "First"]
    /\ UNCHANGED <<users, plans, uuids, call>>

\* ProductRepo.Update, the fetch of the updated row, whose error
\* ProductService.UpdateProduct returns as it is; the call returns
UpdateFirst(k) ==
    /\ inflight[k].op = "UpdateProduct" /\ inflight[k].pc = "First"
    /\ \E fetched \in {StoreGetByID(products, inflight[k].id, NoFault)} :
         ReturnCall(k, fetched.err, fetched.product, <<"GetByID", "Update">>, Nil)
    /\ UNCHANGED <<users, products, plans, uuids>>

\* ProductService.DeleteProduct, GetByID: the existence check
DeleteGetByID(k) ==
    /\ inflight[k].op = "DeleteProduct" /\ inflight[k].pc = "GetByID"
    /\ \E existing \in {StoreGetByID(products, inflight[k].id, NoFault)} :
         IF existing.err # NoError
         THEN /\ ReturnCall(k, IF existing.err = ErrRecordNotFound
                               THEN NotFound("product not found")
                               ELSE existing.err,
                            Nil, <<"GetByID">>, Nil)
              /\ UNCHANGED <<users, products, plans, uuids>>
         ELSE /\ inflight' = [inflight EXCEPT ![k].pc = "Delete"]
              /\ UNCHANGED <<users, products, plans, uuids, call>>

\* ProductRepo.Delete; the call returns, and with it the number of rows the
\* statement removed
DeleteDelete(k) ==
    /\ inflight[k].op = "DeleteProduct" /\ inflight[k].pc = "Delete"
    /\ \E deleted \in {StoreDelete(products, inflight[k].id, NoFault)} :
         /\ products' = deleted.rows
         /\ plans' = CascadeDelete(plans, DOMAIN products \ DOMAIN deleted.rows)
         /\ ReturnCall(k, deleted.err, Nil, <<"GetByID", "Delete">>,
                       Ptr([removed |-> Cardinality(DOMAIN products
                                                    \ DOMAIN deleted.rows)]))
    /\ UNCHANGED <<users, uuids>>

\* ProductService.ListProducts, GetAll: the page, of page 1 and page size 10
ListGetAll(k, order) ==
    /\ inflight[k].op = "ListProducts" /\ inflight[k].pc = "GetAll"
    /\ inflight' = [inflight EXCEPT ![k].pc = "Count",
           ![k].held = Ptr([items |-> StoreGetAll(products, order, Nil, 10, 0),
                            snapshot |-> products])]
    /\ UNCHANGED <<users, products, plans, uuids, call>>

\* the list of goroutine k returns its page and this total
ReturnList(k, total, queries) ==
    /\ call' = [NoCall EXCEPT !.op = inflight[k].op,
                   !.req = [id |-> inflight[k].id],
                   !.invoked = TRUE, !.storeOps = queries,
                   !.list = Ptr([items |-> inflight[k].held[1].items,
                                 total |-> total,
                                 snapshot |-> inflight[k].held[1].snapshot])]
    /\ inflight' = [inflight EXCEPT ![k] = IdleCall]

\* ProductService.ListProducts, Count; the call returns
ListCount(k) ==
    /\ inflight[k].op = "ListProducts" /\ inflight[k].pc = "Count"
    /\ ReturnList(k, RaceCount(products, inflight[k].held[1].snapshot),
                  <<"GetAll", "Count">>)
    /\ UNCHANGED <<users, products, plans, uuids>>

\* SubscriptionService.ListSubscriptionPlans, GetByProductID
ListGetByProductID(k, order) ==
    /\ inflight[k].op = "ListSubscriptionPlans"
    /\ inflight[k].pc = "GetByProductID"
    /\ inflight' = [inflight EXCEPT ![k].pc = "CountByProductID",
           ![k].held = Ptr([items |-> PlanStoreGetByProductID(plans, order,
                                          inflight[k].id, 10, 0),
                            snapshot |-> plans])]
    /\ UNCHANGED <<users, products, plans, uuids, call>>

\* SubscriptionService.ListSubscriptionPlans, CountByProductID
ListCountByProductID(k) ==
    /\ inflight[k].op = "ListSubscriptionPlans"
    /\ inflight[k].pc = "CountByProductID"
    /\ ReturnList(k, PlanStoreCountByProductID(plans, inflight[k].id),
                  <<"GetByProductID", "CountByProductID">>)
    /\ UNCHANGED <<users, products, plans, uuids>>

\* the calls that begin: on the product of the table and its plans
RaceOps == {"UpdateProduct", "DeleteProduct", "ListProducts",
            "ListSubscriptionPlans"}

\* the store when the calls begin: the product of the table and a plan of it
InitRace ==
    /\ users = NewAuthenticator
    /\ products = SeedRows
    /\ plans = [id \in {NewUUID(1)} |->
                   SubscriptionPlan(NewUUID(1), OtherUUID, S_AB, 30, F(1))]
    /\ uuids = 1
    /\ call = NoCall
    /\ inflight = NoCalls

NextRace ==
    \/ \E k \in 1..MaxCalls, op \in RaceOps : BeginCall(k, op, OtherUUID)
    \/ \E k \in 1..MaxCalls : UpdateGetByID(k)
    \/ \E k \in 1..MaxCalls : UpdateUpdates(k)
    \/ \E k \in 1..MaxCalls : UpdateFirst(k)
    \/ \E k \in 1..MaxCalls : DeleteGetByID(k)
    \/ \E k \in 1..MaxCalls : DeleteDelete(k)
    \/ \E k \in 1..MaxCalls, order \in StoreOrders(products) : ListGetAll(k, order)
    \/ \E k \in 1..MaxCalls : ListCount(k)
    \/ \E k \in 1..MaxCalls, order \in StoreOrders(plans) :
          ListGetByProductID(k, order)
    \/ \E k \in 1..MaxCalls : ListCountByProductID(k)
    \/ CreateProduct(SeedRequest, NoFault)

SpecRace == InitRace /\ [][NextRace]_vars

(***************************************************************************)
(* Properties of the gate                                                  *)
(***************************************************************************)

\* a call that went through an interceptor
IsGateCall == call.op \in {"Unary", "Stream"}

\* the call's method name ends in the bypass suffix
IsBypassMethod == HasSuffix(call.method, HealthSuffix)

\* the header value h is "Basic " followed by a base64 text that decodes to
\* username:password
CarriesPair(h, username, password) ==
    /\ HasPrefix(h, BasicPrefix)
    /\ B64Decode(TrimPrefix(h, BasicPrefix)) =
          [ok |-> TRUE, bytes |-> username \o Colon \o password]

\* some authorization value of the metadata carries a pair of the map m
CarriesValidPair(m, md) ==
    /\ md.present
    /\ \E i \in 1..Len(md.authorization) : \E u \in DOMAIN m :
          CarriesPair(md.authorization[i], u, m[u])

\* the first authorization value of the metadata carries a pair of the map m
\* whose username holds no colon
FirstCarriesValidPair(m, md) ==
    /\ md.present
    /\ Len(md.authorization) > 0
    /\ \E u \in DOMAIN m :
          /\ IndexColon(u) = 0
          /\ CarriesPair(md.authorization[1], u, m[u])

C2_SameBypassBothKinds ==
    IsGateCall =>
        /\ IsBypassMethod => call.invoked
        /\ (~IsBypassMethod /\ call.invoked) => CarriesValidPair(users, call.md)

\* C3: a call of grpc.health.v1.Health/Check that carries no authorization
\* header passes the gate and reaches its handler.
C3_HealthCheckPasses ==
    (/\ call.op = "Unary"
     /\ call.method = M_HealthCheck
     /\ Len(call.md.authorization) = 0)
        => call.invoked

\* C4: authenticate reports the first failure in the order: no metadata, no
\* authorization entry, no "Basic " prefix, undecodable base64 or no colon, a
\* pair that is not in the map; and every failure is Unauthenticated.
C4_FirstFailureInOrder ==
    (IsGateCall /\ ~(call.op = "Unary" /\ IsBypassMethod)) =>
        LET md == call.md
            h  == md.authorization[1]
            d  == B64Decode(TrimPrefix(h, BasicPrefix))
        IN  /\ ~call.invoked => call.status.code = "Unauthenticated"
            /\ ~md.present => call.status = Unauthenticated("missing metadata")
            /\ (md.present /\ Len(md.authorization) = 0)
                  => call.status = Unauthenticated("missing authorization header")
            /\ (md.present /\ Len(md.authorization) > 0) =>
                  IF ~HasPrefix(h, BasicPrefix)
                  THEN call.status =
                          Unauthenticated("invalid authorization header format")
                  ELSE IF ~d.ok \/ IndexColon(d.bytes) = 0
                  THEN /\ call.status.code = "Unauthenticated"
                       /\ call.status.msg \notin
                             {"missing metadata", "missing authorization header",
                              "invalid authorization header format",
                              "invalid username or password"}
                  ELSE ~FirstCarriesValidPair(users, md)
                          => call.status =
                                Unauthenticated("invalid username or password")

\* a call whose header decodes but holds no colon is refused
C4_Witness ==
    /\ IsGateCall
    /\ call.md = Metadata(<<H_NoColon>>)
    /\ call.status = Unauthenticated("invalid credentials format")

\* C5: for every username u without a colon and every password p, colons or
\* not, authenticate on the header EncodeBasicAuth(u, p) succeeds exactly when
\* ValidateCredentials(u, p) is true.
C5_SplitOnFirstColon ==
    \A u \in Usernames, p \in Passwords :
        (authenticate(users, Metadata(<<EncodeBasicAuth(u, p)>>)) = StatusOK)
            <=> ValidateCredentials(users, u, p)

\* a call with the credentials a / b:x, the password holding a colon, is let
\* through
C5_Witness ==
    /\ call.op = "Unary"
    /\ ~IsBypassMethod
    /\ call.md = Metadata(<<EncodeBasicAuth(S_a, S_bx)>>)
    /\ call.invoked
    /\ ValidateCredentials(users, S_a, S_bx)

\* C6: in every state of the Authenticator, ValidateCredentials is false of
\* the empty username and of a username that is not in the map, whatever the
\* password, and true of a known username only with the stored password.
C6_FailsClosed ==
    \A u \in Usernames, p \in Passwords :
        /\ u = <<>> => ~ValidateCredentials(users, u, p)
        /\ u \notin DOMAIN users => ~ValidateCredentials(users, u, p)
        /\ (u \in DOMAIN users /\ ValidateCredentials(users, u, p)) => p = users[u]

\* C7 as stated: after AddUser(u, p), ValidateCredentials(u, p) is true, the
\* password stored for u before no longer validates, and the result for every
\* other username is unchanged.
C7_AddUserReplacesAny ==
    [][call'.op = "AddUser" =>
          LET u == call'.req.username
              p == call'.req.password
          IN  /\ ValidateCredentials(users', u, p)
              /\ u \in DOMAIN users => ~ValidateCredentials(users', u, users[u])
              /\ \A v \in (Usernames \cup DOMAIN users) \ {u}, q \in Passwords :
                    ValidateCredentials(users', v, q) = ValidateCredentials(users, v, q)
      ]_vars

\* C7 amended: after AddUser(u, p), ValidateCredentials(u, p) is true, a
\* password stored for u before that differs from p no longer validates, and
\* the result for every other username is unchanged.
C7_AddUserReplaces ==
    [][call'.op = "AddUser" =>
          LET u == call'.req.username
              p == call'.req.password
          IN  /\ ValidateCredentials(users', u, p)
              /\ (u \in DOMAIN users /\ users[u] # p)
                    => ~ValidateCredentials(users', u, users[u])
              /\ \A q \in Passwords \ {p} : ~ValidateCredentials(users', u, q)
              /\ \A v \in (Usernames \cup DOMAIN users) \ {u}, q \in Passwords :
                    ValidateCredentials(users', v, q) = ValidateCredentials(users, v, q)
      ]_vars

\* AddUser has given the predefined user admin another password
C7_Witness ==
    /\ call.op = "AddUser"
    /\ call.req = [username |-> S_admin, password |-> S_x]
    /\ users[S_admin] = S_x
    /\ ~ValidateCredentials(users, S_admin, S_password123)

\* C8: the gate keeps no state between calls: after a call that was let
\* through, a call without valid credentials is still refused, and after a
\* call that was refused, a call with valid credentials is still let through.
C8_Stateless ==
    IsGateCall =>
        /\ (/\ call.prior = "let through"
            /\ ~(call.op = "Unary" /\ IsBypassMethod)
            /\ ~FirstCarriesValidPair(users, call.md)) => ~call.invoked
        /\ (call.prior = "refused" /\ FirstCarriesValidPair(users, call.md))
              => call.invoked

\* a call without valid credentials is refused right after one was let through
C8_Witness ==
    /\ call.op = "Unary"
    /\ ~IsBypassMethod
    /\ call.prior = "let through"
    /\ ~FirstCarriesValidPair(users, call.md)
    /\ ~call.invoked

(***************************************************************************)
(* Properties of the product service                                       *)
(***************************************************************************)

\* the per-variant constraints of a create request's payload of its declared
\* type, as the specification words them: the numbers greater than 0, the
\* strings not empty
ConstraintsHold(req) ==
    IF req.Type = DigitalProduct THEN
        /\ req.DigitalProduct[1].FileSize > 0
        /\ req.DigitalProduct[1].DownloadLink # <<>>
    ELSE IF req.Type = PhysicalProduct THEN
        /\ FloatGtZero(req.PhysicalProduct[1].Weight)
        /\ req.PhysicalProduct[1].Dimensions # <<>>
    ELSE
        /\ req.SubscriptionProduct[1].SubscriptionPeriod # <<>>
        /\ FloatGtZero(req.SubscriptionProduct[1].RenewalPrice)

\* the payload of the request's declared type
DeclaredPayload(req) ==
    IF req.Type = DigitalProduct THEN req.DigitalProduct
    ELSE IF req.Type = PhysicalProduct THEN req.PhysicalProduct
    ELSE req.SubscriptionProduct

\* a create request CreateProduct is to reject
InvalidCreate(req) ==
    \/ ~IsValid(req.Type)
    \/ DeclaredPayload(req) = Nil
    \/ ~ConstraintsHold(req)

\* C9: CreateProduct returns BadRequest and issues no store Create when the
\* type is unknown, when the payload of the declared type is absent, or when
\* a constraint of that payload does not hold (a number that is not greater
\* than 0, an empty string).
C9_InvalidCreateRejected ==
    (call.op = "CreateProduct" /\ InvalidCreate(call.req))
        => /\ call.status.class = "BadRequest"
           /\ call.storeOps = <<>>

\* the entity p carries the payload of its type and no other
MatchingPayloadOnly(p) ==
    /\ IsValid(p.Type)
    /\ (p.DigitalProductInfo # Nil) <=> (p.Type = DigitalProduct)
    /\ (p.PhysicalProductInfo # Nil) <=> (p.Type = PhysicalProduct)
    /\ (p.SubscriptionProductInfo # Nil) <=> (p.Type = SubscriptionProduct)

\* C10: every stored product, and every entity CreateProduct returns, carries
\* the payload of its type and neither of the other two, whatever payloads
\* the create request carried and whatever calls of CreateProduct,
\* UpdateProduct and DeleteProduct came before.
C10_MatchingPayloadOnly ==
    /\ \A id \in DOMAIN products : MatchingPayloadOnly(products[id])
    /\ (call.op = "CreateProduct" /\ call.product # Nil)
          => MatchingPayloadOnly(call.product[1])

\* a product is stored whose create request carried the three payloads
C10_Witness ==
    /\ call.op = "CreateProduct"
    /\ call.status = NoError
    /\ call.req.DigitalProduct # Nil
    /\ call.req.PhysicalProduct # Nil
    /\ call.req.SubscriptionProduct # Nil
    /\ NilUUID \in DOMAIN products
    /\ products[NilUUID].PhysicalProductInfo = Nil

(***************************************************************************)
(* Properties of the two services over their stores                        *)
(***************************************************************************)

\* C11: the entity a successful CreateProduct hands to the store carries an
\* identifier that is not the nil UUID and that no product stored before the
\* call has, as the plan of a successful CreateSubscriptionPlan does.
C11_FreshIdentifier ==
    [][/\ (call'.op = "CreateProduct" /\ call'.status = NoError)
            => /\ call'.product[1].ID # NilUUID
               /\ call'.product[1].ID \notin DOMAIN products
       /\ (call'.op = "CreateSubscriptionPlan" /\ call'.status = NoError)
            => /\ call'.product[1].ID # NilUUID
               /\ call'.product[1].ID \notin DOMAIN plans]_vars

\* the products table is what it was
ProductsUnchanged == products' = products

\* the plans table is what it was
PlansUnchanged == plans' = plans

\* C12: Get, Update and Delete of a product or of a plan whose identifier is
\* not in the store, the lookup answered, return NotFound, send the store
\* nothing but the lookup, and leave both tables as they were.
C12_MissingIsNotFound ==
    [][/\ (/\ call'.op \in {"GetProduct", "UpdateProduct", "DeleteProduct"}
           /\ call'.fault # "GetByID"
           /\ call'.req.id \notin DOMAIN products)
            => /\ call'.status = NotFound("product not found")
               /\ call'.storeOps = <<"GetByID">>
               /\ ProductsUnchanged /\ PlansUnchanged
       /\ (/\ call'.op \in {"GetSubscriptionPlan", "UpdateSubscriptionPlan",
                            "DeleteSubscriptionPlan"}
           /\ call'.fault # "GetByID"
           /\ call'.req.id \notin DOMAIN plans)
            => /\ call'.status = NotFound("subscription plan not found")
               /\ call'.storeOps = <<"GetByID">>
               /\ ProductsUnchanged /\ PlansUnchanged]_vars

\* a product that was deleted is deleted again and the answer is NotFound,
\* the other product still stored
C12_Witness ==
    /\ call.op = "DeleteProduct"
    /\ call.req.id = OtherUUID
    /\ call.status = NotFound("product not found")
    /\ NilUUID \in DOMAIN products

\* the update request req without the payloads of the types other than t
OwnPayloadOnly(req, t) ==
    [req EXCEPT
        !.DigitalProduct      = IF t = DigitalProduct THEN @ ELSE Nil,
        !.PhysicalProduct     = IF t = PhysicalProduct THEN @ ELSE Nil,
        !.SubscriptionProduct = IF t = SubscriptionProduct THEN @ ELSE Nil]

\* C13: an UpdateProduct leaves the type of every product as it was, and the
\* payloads the request carries for types other than the product's are
\* ignored: the call returns and stores what it does without them.
C13_TypeImmutable ==
    [][call'.op = "UpdateProduct" =>
          /\ DOMAIN products' = DOMAIN products
          /\ \A id \in DOMAIN products : products'[id].Type = products[id].Type
          /\ call'.req.id \in DOMAIN products =>
                LET t     == products[call'.req.id].Type
                    alone == ServiceUpdateProduct(products, call'.req.id,
                                 OwnPayloadOnly(call'.req.fields, t), call'.fault)
                IN  /\ products' = alone.rows
                    /\ call'.status = alone.err
                    /\ call'.product = alone.product]_vars

\* an update of a physical product that carries a digital payload has
\* succeeded
C13_Witness ==
    /\ call.op = "UpdateProduct"
    /\ call.status = NoError
    /\ call.req.fields.DigitalProduct # Nil
    /\ call.req.fields.DigitalProduct[1].DownloadLink # <<>>
    /\ call.product[1].Type = PhysicalProduct

\* the product old after an update by req of exactly the fields present in
\* req: a name or description that is not empty, a price that is not nil, and,
\* of the payload of old's type, a number greater than 0, a string not empty
UpdatedFields(old, req) ==
    LET d == req.DigitalProduct
        f == req.PhysicalProduct
        b == req.SubscriptionProduct
    IN  [ID          |-> old.ID,
         Type        |-> old.Type,
         Name        |-> IF req.Name # <<>> THEN req.Name ELSE old.Name,
         Description |-> IF req.Description # <<>> THEN req.Description
                         ELSE old.Description,
         Price       |-> IF req.Price # Nil THEN req.Price[1] ELSE old.Price,
         DigitalProductInfo |->
             IF old.Type = DigitalProduct /\ d # Nil
             THEN Ptr(DigitalProductInfo(
                     IF d[1].FileSize > 0 THEN d[1].FileSize
                     ELSE old.DigitalProductInfo[1].FileSize,
                     IF d[1].DownloadLink # <<>> THEN d[1].DownloadLink
                     ELSE old.DigitalProductInfo[1].DownloadLink))
             ELSE old.DigitalProductInfo,
         PhysicalProductInfo |->
             IF old.Type = PhysicalProduct /\ f # Nil
             THEN Ptr(PhysicalProductInfo(
                     IF FloatGtZero(f[1].Weight) THEN f[1].Weight
                     ELSE old.PhysicalProductInfo[1].Weight,
                     IF f[1].Dimensions # <<>> THEN f[1].Dimensions
                     ELSE old.PhysicalProductInfo[1].Dimensions))
             ELSE old.PhysicalProductInfo,
         SubscriptionProductInfo |->
             IF old.Type = SubscriptionProduct /\ b # Nil
             THEN Ptr(SubscriptionProductInfo(
                     IF b[1].SubscriptionPeriod # <<>> THEN b[1].SubscriptionPeriod
                     ELSE old.SubscriptionProductInfo[1].SubscriptionPeriod,
                     IF FloatGtZero(b[1].RenewalPrice) THEN b[1].RenewalPrice
                     ELSE old.SubscriptionProductInfo[1].RenewalPrice))
             ELSE old.SubscriptionProductInfo]

NoProductFields(req, t) ==
    /\ req.Name = <<>> /\ req.Description = <<>> /\ req.Price = Nil
    /\ (t = DigitalProduct /\ req.DigitalProduct # Nil)
          => /\ req.DigitalProduct[1].FileSize <= 0
             /\ req.DigitalProduct[1].DownloadLink = <<>>
    /\ (t = PhysicalProduct /\ req.PhysicalProduct # Nil)
          => /\ ~FloatGtZero(req.PhysicalProduct[1].Weight)
             /\ req.PhysicalProduct[1].Dimensions = <<>>
    /\ (t = SubscriptionProduct /\ req.SubscriptionProduct # Nil)
          => /\ req.SubscriptionProduct[1].SubscriptionPeriod = <<>>
             /\ ~FloatGtZero(req.SubscriptionProduct[1].RenewalPrice)

\* the request carries no field of a plan
NoPlanFields(req) ==
    req.PlanName = <<>> /\ req.Duration = Nil /\ req.Price = Nil

\* C15: UpdateProduct and UpdateSubscriptionPlan of an identifier the store
\* holds, the lookup answered, with a request that yields no update, return
\* BadRequest "no fields to update", send the store nothing but the lookup and
\* leave both tables as they were; a product request carrying only the payload
\* of another type is such a request.
C15_NoFieldsRejected ==
    [][/\ (/\ call'.op = "UpdateProduct"
           /\ call'.fault # "GetByID"
           /\ call'.req.id \in DOMAIN products
           /\ NoProductFields(call'.req.fields, products[call'.req.id].Type))
            => /\ call'.status = BadRequest("no fields to update")
               /\ call'.storeOps = <<"GetByID">>
               /\ ProductsUnchanged /\ PlansUnchanged
       /\ (/\ call'.op = "UpdateSubscriptionPlan"
           /\ call'.fault # "GetByID"
           /\ call'.req.id \in DOMAIN plans
           /\ NoPlanFields(call'.req.fields))
            => /\ call'.status = BadRequest("no fields to update")
               /\ call'.storeOps = <<"GetByID">>
               /\ ProductsUnchanged /\ PlansUnchanged]_vars

\* an update of a stored plan carrying nothing has been rejected
PlanWithNoFieldsRejected ==
    /\ call.op = "UpdateSubscriptionPlan"
    /\ call.req.fields = P_none
    /\ call.req.id \in DOMAIN plans
    /\ call.status = BadRequest("no fields to update")

\* an update of a stored digital product carrying only a weight has been
\* rejected, a plan being stored
C15_Witness ==
    /\ call.op = "UpdateProduct"
    /\ call.req.fields = U_weight
    /\ call.req.id \in DOMAIN products
    /\ products[call.req.id].Type = DigitalProduct
    /\ call.status = BadRequest("no fields to update")
    /\ plans # NoRows

\* DeleteProduct or DeleteSubscriptionPlan has returned success for id
Deleted(id) ==
    /\ call.op \in {"DeleteProduct", "DeleteSubscriptionPlan"}
    /\ call.status = NoError
    /\ call.req.id = id

\* a Get of id whose lookup the store answered returns NotFound, and a list
\* returns no entity of identifier id
Gone(id) ==
    /\ (/\ call.op \in {"GetProduct", "GetSubscriptionPlan"}
        /\ call.fault = NoFault
        /\ call.req.id = id)
         => call.status \in {NotFound("product not found"),
                             NotFound("subscription plan not found")}
    /\ (/\ call.op \in {"ListProducts", "ListSubscriptionPlans"}
        /\ call.status = NoError)
         => \A i \in DOMAIN call.list[1].response.items :
               call.list[1].response.items[i].ID # id

BoundaryStatus(err) ==
    CASE err.class = "nil"        -> StatusOK
      [] err.class = "BadRequest" -> [code |-> "InvalidArgument", msg |-> err.msg]
      [] err.class = "NotFound"   -> [code |-> "NotFound", msg |-> err.msg]
      [] OTHER -> [code |-> "Internal", msg |-> "internal server error"]

\* the texts of the errors of the store
StorageTexts ==
    {ErrRecordNotFound.msg, ErrStatement.msg,
     "duplicate key value violates unique constraint"}

\* the errors a service returns: of the two service types, and of the store
ServiceErrors ==
    {BadRequest(m) : m \in {"no fields to update", "invalid product type"}}
    \cup {NotFound(m) : m \in {"product not found", "subscription plan not found"}}
    \cup {StoreError(m) : m \in StorageTexts}

\* C19: the two conversions of the boundary map a BadRequest to
\* InvalidArgument with its message, a NotFound to NotFound with its message
\* and every other error to Internal "internal server error"; the status of a
\* delete through a handler is the conversion of the error of the service,
\* and never carries the text of an error of the store.
C19_ErrorsMappedByType ==
    [][/\ \A err \in ServiceErrors :
             /\ convertToGRPCError(err) = BoundaryStatus(err)
             /\ convertSubscriptionToGRPCError(err) = BoundaryStatus(err)
       /\ (call'.op = "DeleteProductRPC" /\ ParseUUID(call'.req.id).ok)
            => /\ call'.status =
                     BoundaryStatus(ServiceDeleteProduct(products,
                         ParseUUID(call'.req.id).id, call'.fault).err)
               /\ call'.status.msg \notin StorageTexts
       /\ (call'.op = "DeleteSubscriptionPlanRPC" /\ ParseUUID(call'.req.id).ok)
            => /\ call'.status =
                     BoundaryStatus(ServiceDeleteSubscriptionPlan(plans,
                         ParseUUID(call'.req.id).id, call'.fault).err)
               /\ call'.status.msg \notin StorageTexts]_vars

\* the delete statement of a stored product has failed, and the handler has
\* answered Internal with the fixed text
C19_Witness ==
    /\ call.op = "DeleteProductRPC"
    /\ call.fault = "Delete"
    /\ NilUUID \in DOMAIN products
    /\ call.status = [code |-> "Internal", msg |-> "internal server error"]

\* C20: whenever a Create, an Update or a Delete of a product or of a plan
\* returns an error, both tables hold exactly what they held before the call.
C20_AllOrNothing ==
    [][(/\ call'.op \in {"CreateProduct", "UpdateProduct", "DeleteProduct",
                         "CreateSubscriptionPlan", "UpdateSubscriptionPlan",
                         "DeleteSubscriptionPlan"}
        /\ call'.status # NoError)
         => (ProductsUnchanged /\ PlansUnchanged)]_vars

(***************************************************************************)
(* Properties of the lists                                                 *)
(***************************************************************************)

\* the page and the page size a list owes a caller who gave p and n
PageOrFirst(p) == IF p <= 0 THEN 1 ELSE p

SizeOrTen(n) == IF n <= 0 THEN 10 ELSE n

\* what the recorded list left: its error, its page, its total, its queries
Listed ==
    [err |-> call.status, items |-> call.list[1].response.items,
     total |-> call.list[1].response.total, queries |-> call.list[1].queries]

\* C17: ListProducts and ListSubscriptionPlans with a page that is not
\* positive leave what they leave with page 1, and with a page size that is
\* not positive what they leave with page size 10: the same queries to the
\* store, the same page, the same total, the same error; and the response of
\* either handler carries the page and the page size so defaulted.
C17_ListDefaults ==
    /\ call.op = "ListProducts"
         => Listed = ServiceListProducts(products, call.req.order, call.req.filter,
                         PageOrFirst(call.req.page), SizeOrTen(call.req.pageSize),
                         call.fault)
    /\ call.op = "ListSubscriptionPlans"
         => Listed = ServiceListSubscriptionPlans(plans, call.req.order,
                         call.req.filter, PageOrFirst(call.req.page),
                         SizeOrTen(call.req.pageSize), call.fault)
    /\ (call.op \in {"ListProductsRPC", "ListSubscriptionPlansRPC"}
        /\ call.status = StatusOK)
         => /\ call.list[1].response[1].page = PageOrFirst(call.req.wire.Page)
            /\ call.list[1].response[1].pageSize = SizeOrTen(call.req.wire.PageSize)
            /\ call.list[1].queries[1].limit = SizeOrTen(call.req.wire.PageSize)
            /\ call.list[1].queries[1].offset =
                  (PageOrFirst(call.req.wire.Page) - 1)
                      * SizeOrTen(call.req.wire.PageSize)

\* the digital products of a table of more than ten of them have been listed
\* with page 0 and page size 0: ten of them came back
C17_Witness ==
    /\ call.op = "ListProducts"
    /\ call.req.filter = Ptr(DigitalProduct)
    /\ call.req.page = 0 /\ call.req.pageSize = 0
    /\ call.status = NoError
    /\ Len(call.list[1].response.items) = 10
    /\ call.list[1].response.total > 10

\* the handler has answered a list of page 0 and page size 0
HandlerListDefaulted ==
    /\ call.op = "ListProductsRPC"
    /\ call.req.wire.Page = 0 /\ call.req.wire.PageSize = 0
    /\ call.status = StatusOK
    /\ Len(call.list[1].response[1].items) = 10

\* the ids of the products matching the filter, in the order of the store
MatchingInOrder(order, typeFilter) ==
    SelectSeq(order, LAMBDA id : typeFilter = Nil \/ products[id].Type = typeFilter[1])

\* C18: a ListProducts the store answered returns only products matching the
\* filter, at most pageSize of them: those at positions (page-1)*pageSize + 1,
\* (page-1)*pageSize + 2, ... of the matching products in the order of the
\* store, as many as there are up to pageSize; and its total is the number of
\* stored products matching the filter, whatever the page and the page size.
C18_PageOfMatching ==
    (call.op = "ListProducts" /\ call.status = NoError) =>
        LET filter   == call.req.filter
            page     == PageOrFirst(call.req.page)
            pageSize == SizeOrTen(call.req.pageSize)
            matching == MatchingInOrder(call.req.order, filter)
            first    == (page - 1) * pageSize
            items    == call.list[1].response.items
        IN  /\ \A i \in DOMAIN items :
                  /\ filter # Nil => items[i].Type = filter[1]
                  /\ first + i <= Len(matching)
                  /\ items[i] = products[matching[first + i]]
            /\ Len(items) <= pageSize
            /\ Len(items) = pageSize \/ first + Len(items) >= Len(matching)
            /\ call.list[1].response.total =
                  Cardinality({id \in DOMAIN products :
                                  filter = Nil \/ products[id].Type = filter[1]})

\* the second page of three of the digital products of a table has been
\* listed: three products, none of them of the first page, the total above
\* both pages
C18_Witness ==
    /\ call.op = "ListProducts"
    /\ call.req.filter = Ptr(DigitalProduct)
    /\ call.req.page = 2 /\ call.req.pageSize = 3
    /\ call.status = NoError
    /\ Len(call.list[1].response.items) = 3
    /\ call.list[1].response.total > 6

(***************************************************************************)
(* Properties of the plans and of the sanitizer                            *)
(***************************************************************************)

\* C21: a CreateSubscriptionPlan whose product identifier is well formed and
\* names no stored product, the database answering, sends the insert to the
\* store with no lookup before it, returns the error of the store, of no
\* service type, which the boundary turns into Internal, and stores no plan.
C21_NoProductLookup ==
    [][(/\ call'.op = "CreateSubscriptionPlan"
        /\ call'.fault = NoFault
        /\ ParseUUID(call'.req.ProductID).ok
        /\ ParseUUID(call'.req.ProductID).id \notin DOMAIN products)
         => /\ call'.storeOps = <<"Create">>
            /\ call'.status.class = "untyped"
            /\ convertSubscriptionToGRPCError(call'.status).code = "Internal"
            /\ call'.product = Nil
            /\ PlansUnchanged /\ ProductsUnchanged]_vars

\* a plan of the product of the nil identifier has been refused by the store,
\* no such product being stored
C21_Witness ==
    /\ call.op = "CreateSubscriptionPlan"
    /\ call.fault = NoFault
    /\ call.req.ProductID = NilUUID
    /\ NilUUID \notin DOMAIN products
    /\ call.status = StoreError("violates foreign key constraint")

\* C24: SanitizeString applied to what SanitizeString returned returns it
\* unchanged.
C24_SanitizeIdempotent ==
    call.op = "SanitizeString" => SanitizeString(call.result[1]) = call.result[1]

\* t is s without the white space at its two ends
IsTrimOf(t, s) ==
    \E a, b \in 0..Len(s) :
        /\ a + b <= Len(s)
        /\ t = SubSeq(s, a + 1, Len(s) - b)
        /\ \A i \in 1..a : s[i] \in WhiteSpace
        /\ \A i \in (Len(s) - b + 1)..Len(s) : s[i] \in WhiteSpace
        /\ t = <<>> \/ (t[1] \notin WhiteSpace /\ t[Len(t)] \notin WhiteSpace)

\* C25: SanitizeURL returns its input without the white space at its two ends
\* when that begins with "http://" or with "https://", and the empty string for
\* every other input.
C25_SanitizeURL ==
    call.op = "SanitizeURL" =>
        \E t \in {SubSeq(call.req, i, j) : i \in 1..(Len(call.req) + 1),
                                           j \in 0..Len(call.req)} :
            /\ IsTrimOf(t, call.req)
            /\ call.result[1] = IF HasPrefix(t, S_http) \/ HasPrefix(t, S_https)
                                THEN t ELSE <<>>

\* a link with white space around it has come back without it
C25_Witness ==
    /\ call.op = "SanitizeURL"
    /\ call.req = <<9, 32>> \o S_https \o <<97>> \o <<32>>
    /\ call.result = Ptr(S_https \o <<97>>)

\* a link of another scheme has come back empty
OtherSchemeRefused ==
    /\ call.op = "SanitizeURL"
    /\ call.req = <<102, 116, 112, 58, 47, 47, 97>>
    /\ call.result = Ptr(<<>>)


(***************************************************************************)
(* Properties of the handlers that create and update                       *)
(***************************************************************************)

\* the handler handed a domain request with a digital payload to the service
HandedLink ==
    /\ call.op \in {"CreateProductRPC", "UpdateProductRPC"}
    /\ call.result # Nil
    /\ call.req.DigitalProduct # Nil
    /\ call.result[1].DigitalProduct # Nil

\* C26: the download link that the CreateProduct and the UpdateProduct handler
\* hand to the domain layer is what SanitizeURL returns of the link of the
\* wire, never the link of the wire itself
C26_LinkSanitized ==
    HandedLink =>
        call.result[1].DigitalProduct[1].DownloadLink
            = SanitizeURL(call.req.DigitalProduct[1].DownloadLink)

\* the UpdateProduct handler alone does hand the sanitized link
UpdateLinkSanitized == call.op = "UpdateProductRPC" => C26_LinkSanitized

\* the UpdateProduct handler has handed a link that it trimmed
UpdateLinkTrimmed ==
    /\ HandedLink
    /\ call.op = "UpdateProductRPC"
    /\ call.req.DigitalProduct[1].DownloadLink = L_padded
    /\ call.result[1].DigitalProduct[1].DownloadLink = S_L1

\* C30: the name that the CreateProduct handler hands to the domain layer is
\* not empty and is at most 255 characters long, as sanitized
C30_NameBounded ==
    (call.op = "CreateProductRPC" /\ call.result # Nil) =>
        (Len(call.result[1].Name) >= 1 /\ Len(call.result[1].Name) <= 255)

\* the UpdateProduct handler keeps the bounds 2..255 on a name it hands on
UpdateNameBounded ==
    (call.op = "UpdateProductRPC" /\ call.result # Nil
        /\ call.result[1].Name # <<>>) =>
        (Len(call.result[1].Name) >= 2 /\ Len(call.result[1].Name) <= 255)


(***************************************************************************)
(* Properties of the plans created and updated                             *)
(***************************************************************************)

\* a create request that the checks of the handler accept
ValidPlanRequest(req) ==
    /\ ParseUUID(req.ProductID).ok
    /\ Len(req.PlanName) >= 2 /\ Len(req.PlanName) <= 255
    /\ req.Duration >= 1 /\ req.Duration <= 3650
    /\ FloatGtZero(req.Price) /\ ~FloatGt(req.Price, 1000000)

\* the plan has the name, duration, price and product of the request
SamePlan(plan, req) ==
    /\ plan.PlanName = req.PlanName
    /\ plan.Duration = req.Duration
    /\ plan.Price = req.Price
    /\ plan.ProductID = ParseUUID(req.ProductID).id

\* C22: the plan CreateSubscriptionPlan returns of a valid request, and the
\* plan GetSubscriptionPlan returns next of its identifier, have the plan name,
\* duration, price and product identifier of the request
C22_PlanRoundTrip ==
    [][(/\ call.op = "CreateSubscriptionPlan"
        /\ call.status = NoError
        /\ ValidPlanRequest(call.req)
        /\ call'.op = "GetSubscriptionPlan"
        /\ call'.status = NoError
        /\ call'.req.id = call.product[1].ID)
       => (/\ SamePlan(call.product[1], call.req)
           /\ SamePlan(call'.product[1], call.req))]_vars

\* the plan returned by the create has the fields of the request, whatever
\* the store keeps
CreatedPlanAsRequested ==
    (call.op = "CreateSubscriptionPlan" /\ call.status = NoError) =>
        SamePlan(call.product[1], call.req)

\* a request of a plan handler that breaks a bound of the duration or of the
\* price; an update carries a field when it is not zero
BreaksPlanBound ==
    \/ /\ call.op = "CreateSubscriptionPlanRPC"
       /\ \/ call.req.Duration < 1 \/ call.req.Duration > 3650
          \/ ~FloatGtZero(call.req.Price)
    \/ /\ call.op = "UpdateSubscriptionPlanRPC"
       /\ \/ call.req.Duration # 0
             /\ (call.req.Duration < 1 \/ call.req.Duration > 3650)
          \/ FloatNeZero(call.req.Price) /\ ~FloatGtZero(call.req.Price)

\* the durations of the stored plans are in 1..3650
StoredDurationsBounded ==
    \A id \in DOMAIN plans : plans[id].Duration >= 1 /\ plans[id].Duration <= 3650

\* C23: every stored plan has a duration in 1..3650 and a price above 0, and a
\* request of a handler that breaks a bound is answered InvalidArgument with
\* no call of the domain layer
C23_PlanBounds ==
    /\ StoredDurationsBounded
    /\ \A id \in DOMAIN plans : FloatGtZero(plans[id].Price)
    /\ BreaksPlanBound => (call.status.code = "InvalidArgument" /\ call.result = Nil)


(***************************************************************************)
(* Properties of the calls in flight together                              *)
(***************************************************************************)

\* goroutine k returns from the statement pc of a call op in this step
Returns(k, op, pc) ==
    /\ inflight[k].op = op
    /\ inflight[k].pc = pc
    /\ inflight'[k] = IdleCall

\* the page is the first rows, at most 10, of the table as it was
PageOf(items, snapshot, matching) ==
    /\ Len(items) = (IF Cardinality(matching) < 10 THEN Cardinality(matching)
                     ELSE 10)
    /\ \A i \in 1..Len(items) :
          items[i].ID \in matching /\ items[i] = snapshot[items[i].ID]
    /\ \A i, j \in 1..Len(items) : i # j => items[i].ID # items[j].ID

\* C27: a list is two queries, the page and then the count, each of the table
\* as it is when the query runs: the page is of the table at the first query,
\* the total is the count of the table when the list returns, and the two
\* agree when the table is the same at both
C27_PageThenCount ==
    [][\A k \in 1..MaxCalls :
        /\ Returns(k, "ListProducts", "Count") =>
              /\ call'.storeOps = <<"GetAll", "Count">>
              /\ call'.list[1].total = Cardinality(DOMAIN products)
              /\ PageOf(call'.list[1].items, call'.list[1].snapshot,
                        DOMAIN call'.list[1].snapshot)
              /\ call'.list[1].snapshot = products =>
                    Len(call'.list[1].items) = call'.list[1].total
        /\ Returns(k, "ListSubscriptionPlans", "CountByProductID") =>
              /\ call'.storeOps = <<"GetByProductID", "CountByProductID">>
              /\ call'.list[1].total =
                    Cardinality({id \in DOMAIN plans :
                                    plans[id].ProductID = inflight[k].id})
              /\ PageOf(call'.list[1].items, call'.list[1].snapshot,
                        {id \in DOMAIN call'.list[1].snapshot :
                            call'.list[1].snapshot[id].ProductID = inflight[k].id})
              /\ call'.list[1].snapshot = plans =>
                    Len(call'.list[1].items) = call'.list[1].total]_vars

\* a list of products has returned a page of more entities than its total
C27_Witness ==
    /\ call.op = "ListProducts"
    /\ Len(call.list[1].items) > call.list[1].total

\* a list of plans has returned a page of more entities than its total
PlanPageAboveTotal ==
    /\ call.op = "ListSubscriptionPlans"
    /\ Len(call.list[1].items) > call.list[1].total

\* a list of products has returned a total above its page, of fewer than 10
PageBelowTotal ==
    /\ call.op = "ListProducts"
    /\ Len(call.list[1].items) < call.list[1].total

\* C28: UpdateProduct answers NotFound from its existence check alone; once the
\* check has found the row, a row gone at the re-fetch gives the store's
\* record-not-found, which the handler turns into Internal
C28_GoneAfterCheckIsInternal ==
    [][\A k \in 1..MaxCalls :
        /\ Returns(k, "UpdateProduct", "GetByID") =>
              (call'.status.code = "NotFound" <=> inflight[k].id \notin DOMAIN products)
        /\ Returns(k, "UpdateProduct", "First") =>
              call'.status = (IF inflight[k].id \in DOMAIN products THEN StatusOK
                              ELSE [code |-> "Internal",
                                    msg |-> "internal server error"])]_vars

\* an UpdateProduct whose check found the row has returned Internal
C28_Witness ==
    /\ call.op = "UpdateProduct"
    /\ call.storeOps = <<"GetByID", "Update">>
    /\ call.status.code = "Internal"

\* C29: a DeleteProduct whose existence check found the row returns success
\* from its delete, whether the statement removed a row or none
C29_DeleteAfterCheckSucceeds ==
    [][\A k \in 1..MaxCalls :
        Returns(k, "DeleteProduct", "Delete") => call'.status = StatusOK]_vars

\* a DeleteProduct has returned success for a row that another call in
\* flight had removed
C29_Witness ==
    /\ call.op = "DeleteProduct"
    /\ call.status = StatusOK
    /\ call.storeOps = <<"GetByID", "Delete">>
    /\ call.result[1].removed = 0

====
